---- MODULE Spec2Model ----
(***************************************************************************)
(* NICSSIM: the tag store, the PLC1 control logic (src/src/PLC1.py) and    *)
(* the remote attack dispatcher (src/src/AttackerRemote.py).               *)
(*                                                                         *)
(* Analog tag values are fixed-point integers in hundredths of the tag's   *)
(* unit (320.0 degC is 32000, 15.5 MPa is 1550, a valve command 0.5 is 50, *)
(* a rod position 50.0 % is 5000).  Mode and status tags keep their raw    *)
(* integer values (mode 1 and 2 manual, 3 auto; status 0 or 1).            *)
(* Comparisons are exact on these integers: the rounding of binary         *)
(* floating point at a threshold such as 15.5 - 0.05 is not modelled.      *)
(*                                                                         *)
(* The physics loop (src/src/FactorySimulation.py) computes in             *)
(* ten-thousandths.  A sensor value it writes is kept as tags[g] (the      *)
(* hundredths, which PLC1 reads) and frac[g] (the remainder), so that      *)
(* changes below one hundredth per tick accumulate as they do in the code; *)
(* every product is rounded to the nearest ten-thousandth.                 *)
(***************************************************************************)
EXTENDS Integers, Sequences, FiniteSets, TLC

VARIABLES
    tags,        \* the tag store: tag name -> latest value
    L,           \* PLC1._logic: its position (pc) and local variables
    cycles,      \* number of ControlLogic cycles completed
    pre,         \* the tag store as it was when the last cycle started
    ev,          \* the last event: "init", "operator", "plc" (one access), "cycle"
    plcWrote,    \* the tag written by the last PLC1 step, or "none"
    opWrites,    \* number of writes made by the operator / attack side
    \* AttackerRemote
    enabled,          \* self.enabled
    applying_attack,  \* self.applying_attack, the in-flight flag
    attacksQueue,     \* self.attacksQueue, oldest message first
    mqtt_alive,       \* self.mqtt_thread is running the client loop
    dpc,              \* position of the dispatch loop (Runnable loop calling _logic)
    cur,              \* the message handed to process_messages, or NoMsg
    rpc,              \* position of the receive thread inside on_message
    rmsg,             \* the message on_message is handling, or NoMsg
    sent,             \* number of messages delivered to on_message so far
    started,          \* messages whose attack primitive was invoked, in order
    running,          \* messages whose attack primitive is executing now
    sawBusy,          \* messages whose on_message read the in-flight flag as set
    late              \* messages that arrived while an accepted command was incomplete

plcVars == <<tags, L, cycles, pre, ev, plcWrote, opWrites>>

atkVars == <<enabled, applying_attack, attacksQueue, mqtt_alive, dpc, cur, rpc, rmsg,
             sent, started, running, sawBusy, late>>

VARIABLES
    \* the backing table of the tag store
    table,       \* the rows (tag, value, timestamp) written so far
    clock        \* the timestamp the next write gets

storeVars == <<table, clock>>

VARIABLES
    \* FactorySimulation
    frac,             \* per sensor tag, the part of its value below one hundredth,
                      \* in ten-thousandths (tags holds the hundredths)
    valve_eff,        \* self._valve_eff, in ten-thousandths
    loop_valve_eff,   \* self._loop_valve_eff, in ten-thousandths
    rad_spike,        \* self._rad_spike: active, until (ms), level
    now,              \* the wall clock, in ms
    ticks,            \* number of calls of FactorySimulation._logic so far
    tick              \* the last call: its dt, the access that failed (0: none),
                      \* whether noise was off, what a fresh engine would have written,
                      \* the engine's fields before the call

physVars == <<frac, valve_eff, loop_valve_eff, rad_spike, now, ticks, tick>>

VARIABLES
    failed       \* the access (position in PLC1._logic) that raised in the last
                 \* ControlLogic cycle, or 0 when none did

cycVars == <<failed>>

VARIABLES
    env,         \* the process environment: device key -> address, "" or Unset
    invoked,     \* the calls of attack primitives made so far, in order
    rejected     \* messages whose process_messages ended in the except clause

cmdVars == <<env, invoked, rejected>>

VARIABLES
    connfile,    \* the connection file as it is now
    attempted,   \* the descriptor the last call of __try_enable read
    threadDesc,  \* the descriptor on which the client thread was started
    edits        \* number of times the connection file was replaced

cfgVars == <<connfile, attempted, threadDesc, edits>>

VARIABLES
    display,     \* HMI1: the cell each tag contributed at the last poll
    polls        \* number of poll cycles HMI1 has run

hmiVars == <<display, polls>>

VARIABLES
    pending,     \* the sensor values a tick in progress computed and is writing
    wpos,        \* how many of them it has written
    jointly      \* ghost: some store state since the current ControlLogic
                 \* cycle began had all four sensors within the clear margins

tearVars == <<pending, wpos, jointly>>

VARIABLES
    lastFail     \* ghost: the kind of the last failed enable or connection
                 \* attempt that no retry sleep or later attempt has followed

boVars == <<lastFail>>

VARIABLES
    twin         \* a second run of PhysicsEngine and ControlLogic: its tag
                 \* store, the sub-hundredth part of its sensors and its
                 \* engine's fields

twinVars == <<twin>>

extVars == <<storeVars, physVars, cycVars, cmdVars, cfgVars, hmiVars, tearVars, boVars,
             twinVars>>

----------------------------------------------------------------------------
(* Configs.TAG: the tag names PLC1 uses *)

TAG_CORE_NEUTRON_FLUX_VALUE == "core_neutron_flux_value"
TAG_CORE_TEMP_IN_VALUE == "core_temp_in_value"
TAG_CORE_TEMP_OUT_VALUE == "core_temp_out_value"
TAG_CORE_PRESSURE_VALUE == "core_pressure_value"
TAG_CORE_FLOW_VALUE == "core_flow_value"
TAG_SG_IN_PRESSURE_VALUE == "sg_in_pressure_value"
TAG_PRIMARY_RAD_MON_VALUE == "primary_rad_mon_value"
TAG_PRIMARY_LOOP_VALVE_POS_VALUE == "primary_loop_valve_pos_value"
TAG_CORE_CONTROL_ROD_POS_VALUE == "core_control_rod_pos_value"
TAG_CORE_CONTROL_ROD_MODE == "core_control_rod_mode"
TAG_CORE_NEUTRON_FLUX_SP == "core_neutron_flux_sp"
TAG_CORE_RCP_SPEED_CMD == "core_rcp_speed_cmd"
TAG_CORE_RCP_MODE == "core_rcp_mode"
TAG_CORE_COOLANT_VALVE_CMD == "core_coolant_valve_cmd"
TAG_CORE_COOLANT_VALVE_MODE == "core_coolant_valve_mode"
TAG_PRIMARY_LOOP_VALVE_CMD == "primary_loop_valve_cmd"
TAG_PRIMARY_LOOP_VALVE_MODE == "primary_loop_valve_mode"
TAG_CORE_PRESSURIZER_HEATER_CMD == "core_pressurizer_heater_cmd"
TAG_CORE_PRESSURIZER_HEATER_MODE == "core_pressurizer_heater_mode"
TAG_CORE_PRESSURIZER_SPRAY_CMD == "core_pressurizer_spray_cmd"
TAG_CORE_PRESSURIZER_SPRAY_MODE == "core_pressurizer_spray_mode"
TAG_CORE_PRESSURIZER_VALVE_CMD == "core_pressurizer_valve_cmd"
TAG_CORE_PRESSURIZER_VALVE_MODE == "core_pressurizer_valve_mode"
TAG_CORE_RELIEF_VALVE_STATUS == "core_relief_valve_status"
TAG_CORE_TEMP_OUT_MAX == "core_temp_out_max"
TAG_CORE_PRESSURE_MAX == "core_pressure_max"
TAG_CORE_PRESSURE_HIHI == "core_pressure_hihi"
TAG_CORE_FLOW_MIN == "core_flow_min"
TAG_PRIMARY_RAD_ALARM_MAX == "primary_rad_alarm_max"
TAG_CORE_ALARM_STATUS == "core_alarm_status"

(* Configs.TAG.TAG_LIST: the 'default' of every tag PLC1 and the physics    *)
(* loop use, in hundredths                                                  *)
TAG_LIST ==
    (TAG_CORE_NEUTRON_FLUX_VALUE :> 80) @@
    (TAG_CORE_TEMP_IN_VALUE :> 29000) @@
    (TAG_CORE_TEMP_OUT_VALUE :> 30000) @@
    (TAG_CORE_PRESSURE_VALUE :> 1500) @@
    (TAG_CORE_FLOW_VALUE :> 60) @@
    (TAG_SG_IN_PRESSURE_VALUE :> 1490) @@
    (TAG_PRIMARY_RAD_MON_VALUE :> 2) @@
    (TAG_PRIMARY_LOOP_VALVE_POS_VALUE :> 50) @@
    (TAG_CORE_CONTROL_ROD_POS_VALUE :> 5000) @@
    (TAG_CORE_CONTROL_ROD_MODE :> 3) @@
    (TAG_CORE_NEUTRON_FLUX_SP :> 90) @@
    (TAG_CORE_RCP_SPEED_CMD :> 60) @@
    (TAG_CORE_RCP_MODE :> 3) @@
    (TAG_CORE_COOLANT_VALVE_CMD :> 50) @@
    (TAG_CORE_COOLANT_VALVE_MODE :> 3) @@
    (TAG_PRIMARY_LOOP_VALVE_CMD :> 50) @@
    (TAG_PRIMARY_LOOP_VALVE_MODE :> 3) @@
    (TAG_CORE_PRESSURIZER_HEATER_CMD :> 20) @@
    (TAG_CORE_PRESSURIZER_HEATER_MODE :> 3) @@
    (TAG_CORE_PRESSURIZER_SPRAY_CMD :> 0) @@
    (TAG_CORE_PRESSURIZER_SPRAY_MODE :> 3) @@
    (TAG_CORE_PRESSURIZER_VALVE_CMD :> 0) @@
    (TAG_CORE_PRESSURIZER_VALVE_MODE :> 3) @@
    (TAG_CORE_RELIEF_VALVE_STATUS :> 0) @@
    (TAG_CORE_TEMP_OUT_MAX :> 32000) @@
    (TAG_CORE_PRESSURE_MAX :> 1550) @@
    (TAG_CORE_PRESSURE_HIHI :> 1590) @@
    (TAG_CORE_FLOW_MIN :> 50) @@
    (TAG_PRIMARY_RAD_ALARM_MAX :> 20) @@
    (TAG_CORE_ALARM_STATUS :> 0)

(* PLC1 class constants, in hundredths *)
HYST == 50
P_HYST == 5
RAD_HYST == 2

----------------------------------------------------------------------------
(* The guarded actuators of PLC1._logic: the (mode tag, command tag) pairs  *)
(* handed to _check_manual_input, in program order.                         *)

Actuators == {"rod", "rcp", "coolant_valve", "loop_valve", "heater", "spray", "pressurizer_valve"}

ModeTag(a) ==
    CASE a = "rod" -> TAG_CORE_CONTROL_ROD_MODE
      [] a = "rcp" -> TAG_CORE_RCP_MODE
      [] a = "coolant_valve" -> TAG_CORE_COOLANT_VALVE_MODE
      [] a = "loop_valve" -> TAG_PRIMARY_LOOP_VALVE_MODE
      [] a = "heater" -> TAG_CORE_PRESSURIZER_HEATER_MODE
      [] a = "spray" -> TAG_CORE_PRESSURIZER_SPRAY_MODE
      [] a = "pressurizer_valve" -> TAG_CORE_PRESSURIZER_VALVE_MODE

\* mutant: the loop-valve branch writes the valve's position tag
CmdTagLoopPosition(a) ==
    CASE a = "rod" -> TAG_CORE_CONTROL_ROD_POS_VALUE
      [] a = "rcp" -> TAG_CORE_RCP_SPEED_CMD
      [] a = "coolant_valve" -> TAG_CORE_COOLANT_VALVE_CMD
      [] a = "loop_valve" -> TAG_PRIMARY_LOOP_VALVE_POS_VALUE
      [] a = "heater" -> TAG_CORE_PRESSURIZER_HEATER_CMD
      [] a = "spray" -> TAG_CORE_PRESSURIZER_SPRAY_CMD
      [] a = "pressurizer_valve" -> TAG_CORE_PRESSURIZER_VALVE_CMD

CmdTag(a) ==
    CASE a = "rod" -> TAG_CORE_CONTROL_ROD_POS_VALUE
      [] a = "rcp" -> TAG_CORE_RCP_SPEED_CMD
      [] a = "coolant_valve" -> TAG_CORE_COOLANT_VALVE_CMD
      [] a = "loop_valve" -> TAG_PRIMARY_LOOP_VALVE_CMD
      [] a = "heater" -> TAG_CORE_PRESSURIZER_HEATER_CMD
      [] a = "spray" -> TAG_CORE_PRESSURIZER_SPRAY_CMD
      [] a = "pressurizer_valve" -> TAG_CORE_PRESSURIZER_VALVE_CMD

(* A mode tag value that signals manual: 1 ("Off man") or 2 ("On man");     *)
(* 3 is auto.                                                               *)
IsManual(mode) == mode \in {1, 2}

(* PLC._check_manual_input(control_tag, actuator_tag): reads the mode tag   *)
(* and answers whether it signals manual; it writes nothing.                *)
check_manual_input(t, control_tag, actuator_tag) == IsManual(t[control_tag])

----------------------------------------------------------------------------
(* The values PLC1._logic computes, from its locals.  The record l holds    *)
(* the locals under the source's names; l.cmd stands for the branch-local   *)
(* rod, cmd, v, lv, h and s, each dead once its branch has written it.      *)

\* mutant: the computed value is written as it is
Unclamped(x, lo, hi) == x

\* min(max(x, lo), hi)
Clamp(x, lo, hi) == IF x < lo THEN lo ELSE IF x > hi THEN hi ELSE x

\* mutant: the correction has the opposite sign
RodValueReversed(l) == Clamp(l.cmd - (l.flux - l.flux_sp) * 4, 0, 10000)

\* rod += err * 4.0; rod = min(max(rod, 0.0), 100.0)
RodValue(l) == Clamp(l.cmd + (l.flux - l.flux_sp) * 4, 0, 10000)

RcpValue(l) ==
    LET c == IF l.t_out > l.tmax - 300 \/ l.flow < l.fmin + 5 THEN l.cmd + 2
             ELSE IF l.t_out < l.tmax - 800 /\ l.flow > l.fmin + 20 THEN l.cmd - 1
             ELSE l.cmd
    IN Clamp(c, 0, 100)

CoolantValveValue(l) ==
    LET v == IF l.t_out > l.tmax - 200 THEN l.cmd + 2
             ELSE IF l.t_out < l.tmax - 1000 THEN l.cmd - 1
             ELSE l.cmd
    IN Clamp(v, 0, 100)

LoopValveValue(l) ==
    LET lv == IF l.flow < l.fmin + 5 \/ l.t_out > l.tmax - 500 THEN l.cmd + 2
              ELSE IF l.flow > l.fmin + 20 /\ l.t_out < l.tmax - 1200 THEN l.cmd - 1
              ELSE l.cmd
    IN Clamp(lv, 0, 100)

HeaterValue(l) ==
    LET h == IF l.p_core < l.pmax - P_HYST THEN l.cmd + 3
             ELSE IF l.p_core > l.pmax + 2 THEN l.cmd - 2
             ELSE l.cmd
    IN Clamp(h, 0, 100)

\* mutant: the spray is stepped in the heater's direction
SprayValueAsHeater(l) ==
    LET s == IF l.p_core < l.pmax - P_HYST THEN l.cmd + 3
             ELSE IF l.p_core > l.pmax + 3 THEN l.cmd - 2
             ELSE l.cmd
    IN Clamp(s, 0, 100)

SprayValue(l) ==
    LET s == IF l.p_core > l.pmax + 3 THEN l.cmd + 3
             ELSE IF l.p_core < l.pmax - P_HYST THEN l.cmd - 2
             ELSE l.cmd
    IN Clamp(s, 0, 100)

\* mutant: no dead band, the valve closes whenever pressure is not above hihi
ReliefValueNoDeadBand(l) == IF l.p_core > l.phihi THEN 1 ELSE 0

\* relief_open after lines 90-93
ReliefValue(l) ==
    IF l.p_core > l.phihi THEN 1
    ELSE IF l.p_core < l.pmax - 5 THEN 0
    ELSE l.relief_open

\* pv = 1.0 if relief_open else 0.0
PressurizerValveValue(l) == IF l.relief_open # 0 THEN 100 ELSE 0

\* mutant: the radiation condition is left out of the trip
TripWithoutRad(l) ==
    \/ l.t_out > l.tmax
    \/ l.p_core > l.pmax
    \/ l.flow < l.fmin

\* trip = (t_out > tmax) or (p_core > pmax) or (flow < fmin) or (rad > radmax)
Trip(l) ==
    \/ l.t_out > l.tmax
    \/ l.p_core > l.pmax
    \/ l.flow < l.fmin
    \/ l.rad > l.radmax

\* mutant: the temperature clears as soon as it is below max (no hysteresis)
ClearConditionNoHyst(l) ==
    /\ l.t_out < l.tmax
    /\ l.p_core < l.pmax - P_HYST
    /\ l.flow > l.fmin + 2
    /\ l.rad < l.radmax - RAD_HYST

\* mutant: a tripped alarm is cleared on every cycle
ClearConditionAlways(l) == TRUE

\* the condition of line 105, under which a tripped alarm is cleared
ClearCondition(l) ==
    /\ l.t_out < l.tmax - HYST
    /\ l.p_core < l.pmax - P_HYST
    /\ l.flow > l.fmin + 2
    /\ l.rad < l.radmax - RAD_HYST

\* mutant: the guard is ignored and the branch body always runs
BranchRunsAlways(manual) == TRUE

\* if not self._check_manual_input(...): the branch body runs
BranchRuns(manual) == ~manual

----------------------------------------------------------------------------
(* PLC1._logic as a program: one instruction per tag-store access, in the   *)
(* order of the source.  Local computation between two accesses belongs to  *)
(* the access that follows it.                                              *)

Get(var, tag) == [op |-> "get", var |-> var, tag |-> tag, act |-> "", len |-> 0]

\* lines 19-33: the sensors, then the setpoints and limits
ReadInputs ==
    << Get("flux", TAG_CORE_NEUTRON_FLUX_VALUE),
       Get("t_in", TAG_CORE_TEMP_IN_VALUE),
       Get("t_out", TAG_CORE_TEMP_OUT_VALUE),
       Get("p_core", TAG_CORE_PRESSURE_VALUE),
       Get("p_sg_in", TAG_SG_IN_PRESSURE_VALUE),
       Get("flow", TAG_CORE_FLOW_VALUE),
       Get("rad", TAG_PRIMARY_RAD_MON_VALUE),
       Get("flux_sp", TAG_CORE_NEUTRON_FLUX_SP),
       Get("tmax", TAG_CORE_TEMP_OUT_MAX),
       Get("pmax", TAG_CORE_PRESSURE_MAX),
       Get("phihi", TAG_CORE_PRESSURE_HIHI),
       Get("fmin", TAG_CORE_FLOW_MIN),
       Get("radmax", TAG_PRIMARY_RAD_ALARM_MAX) >>

\* mutant: a manual mode does not skip the body of the branch
GuardedBranchNoSkip(a) ==
    << [op |-> "check", var |-> "", tag |-> ModeTag(a), act |-> a, len |-> 0],
       Get("cmd", CmdTag(a)),
       [op |-> "set", var |-> "", tag |-> CmdTag(a), act |-> a, len |-> 0] >>

\* if not _check_manual_input(mode, cmd): x = _get(cmd); ...; _set(cmd, x)
GuardedBranch(a) ==
    << [op |-> "check", var |-> "", tag |-> ModeTag(a), act |-> a, len |-> 2],
       Get("cmd", CmdTag(a)),
       [op |-> "set", var |-> "", tag |-> CmdTag(a), act |-> a, len |-> 0] >>

\* mutant: the relief state is read back from the pressurizer-valve command
ReliefBranchFromValve ==
    << Get("relief_open", TAG_CORE_PRESSURIZER_VALVE_CMD),
       [op |-> "set_relief", var |-> "relief_open", tag |-> TAG_CORE_RELIEF_VALVE_STATUS,
        act |-> "", len |-> 0] >>

\* lines 89-94: the relief valve status, not guarded by any mode tag
ReliefBranch ==
    << Get("relief_open", TAG_CORE_RELIEF_VALVE_STATUS),
       [op |-> "set_relief", var |-> "relief_open", tag |-> TAG_CORE_RELIEF_VALVE_STATUS,
        act |-> "", len |-> 0] >>

\* lines 97-99: the pressurizer valve command follows relief_open; no _get
PressurizerValveBranch ==
    << [op |-> "check", var |-> "", tag |-> TAG_CORE_PRESSURIZER_VALVE_MODE,
        act |-> "pressurizer_valve", len |-> 1],
       [op |-> "set", var |-> "", tag |-> TAG_CORE_PRESSURIZER_VALVE_CMD,
        act |-> "pressurizer_valve", len |-> 0] >>

\* lines 102-109: the latched alarm
AlarmBranch ==
    << Get("alarm", TAG_CORE_ALARM_STATUS),
       [op |-> "set_alarm", var |-> "", tag |-> TAG_CORE_ALARM_STATUS, act |-> "", len |-> 0] >>

Program ==
    ReadInputs \o GuardedBranch("rod") \o GuardedBranch("rcp")
      \o GuardedBranch("coolant_valve") \o GuardedBranch("loop_valve")
      \o GuardedBranch("heater") \o GuardedBranch("spray")
      \o ReliefBranch \o PressurizerValveBranch \o AlarmBranch

\* the locals of a fresh call of _logic
InitL ==
    [pc |-> 1, manual |-> FALSE, cmd |-> 0, relief_open |-> 0, alarm |-> 0,
     flux |-> 0, t_in |-> 0, t_out |-> 0, p_core |-> 0, p_sg_in |-> 0, flow |-> 0,
     rad |-> 0, flux_sp |-> 0, tmax |-> 0, pmax |-> 0, phihi |-> 0, fmin |-> 0,
     radmax |-> 0]

\* the value a guarded branch hands to _set
BranchValue(a, l) ==
    CASE a = "rod" -> RodValue(l)
      [] a = "rcp" -> RcpValue(l)
      [] a = "coolant_valve" -> CoolantValveValue(l)
      [] a = "loop_valve" -> LoopValveValue(l)
      [] a = "heater" -> HeaterValue(l)
      [] a = "spray" -> SprayValue(l)
      [] a = "pressurizer_valve" -> PressurizerValveValue(l)

\* mutant: the alarm tag is written on every cycle, changed or not
AlarmWriteEveryCycle(l) ==
    IF l.alarm # 0
    THEN (IF ClearCondition(l) THEN 0 ELSE 1)
    ELSE (IF Trip(l) THEN 1 ELSE 0)

\* lines 104-109: the value written to the alarm tag, or -1 when none is
AlarmWrite(l) ==
    IF l.alarm # 0
    THEN (IF ClearCondition(l) THEN 0 ELSE -1)
    ELSE (IF Trip(l) THEN 1 ELSE -1)

Done(l) == l.pc > Len(Program)

(* One instruction of _logic on store t with locals l: the store and locals *)
(* after it, and the tag it wrote ("none" when it wrote nothing).           *)
PLCStep(t, l) ==
    LET ins == Program[l.pc] IN
    CASE ins.op = "get" ->
           [tags |-> t, l |-> [l EXCEPT ![ins.var] = t[ins.tag], !.pc = @ + 1],
            wrote |-> "none"]
      [] ins.op = "check" ->
           LET m == check_manual_input(t, ins.tag, CmdTag(ins.act)) IN
           [tags |-> t,
            l |-> [l EXCEPT !.manual = m,
                            !.pc = IF BranchRuns(m) THEN @ + 1 ELSE @ + 1 + ins.len],
            wrote |-> "none"]
      [] ins.op = "set" ->
           [tags |-> [t EXCEPT ![ins.tag] = BranchValue(ins.act, l)],
            l |-> [l EXCEPT !.pc = @ + 1], wrote |-> ins.tag]
      [] ins.op = "set_relief" ->
           [tags |-> [t EXCEPT ![ins.tag] = ReliefValue(l)],
            l |-> [l EXCEPT !.relief_open = ReliefValue(l), !.pc = @ + 1],
            wrote |-> ins.tag]
      [] ins.op = "set_alarm" ->
           IF AlarmWrite(l) = -1
           THEN [tags |-> t, l |-> [l EXCEPT !.pc = @ + 1], wrote |-> "none"]
           ELSE [tags |-> [t EXCEPT ![ins.tag] = AlarmWrite(l)],
                 l |-> [l EXCEPT !.pc = @ + 1], wrote |-> ins.tag]

(* A whole call of _logic with no other writer in between *)
RECURSIVE RunCycle(_, _)
RunCycle(t, l) ==
    IF Done(l) THEN [tags |-> t, l |-> l]
    ELSE LET r == PLCStep(t, l) IN RunCycle(r.tags, r.l)

----------------------------------------------------------------------------
(* Bounds and input sets *)

MaxCycles == 2
MaxManual == 1
MaxRaceCycles == 1
MaxOpWrites == 1

\* outlet temperature (max 320.0): well clear, just past the clear margin
\* (max - 0.6), on the margin (max - 0.5), in the dead band (max - 0.1), on
\* the maximum, tripping (max + 1)
TempOutValues == {30000, 31940, 31950, 31990, 32000, 32100}
\* pressure (max 15.5, hihi 15.9): clear, on the margin (max - 0.05), in the
\* dead band, on the maximum, above max and below hihi, on hihi, above hihi
PressureValues == {1500, 1545, 1548, 1550, 1555, 1590, 1600}
\* flow (min 0.5): clear, on the margin (min + 0.02), dead band, on min, tripping
FlowValues == {60, 52, 51, 50, 45}
\* radiation (max 0.20): baseline, on the margin (max - 0.02), dead band, on
\* max, tripping
RadValues == {2, 18, 19, 20, 30}
\* values written to a command tag through the manual path
ManualValues == {0, 37}

\* the store seeded with the TAG_LIST defaults (FactorySimulation.init)
Seeded == TAG_LIST

----------------------------------------------------------------------------
(* AttackerRemote.__init__ *)

NoMsg == [id |-> 0, attack |-> "none"]

AtkInit ==
    /\ enabled = FALSE
    /\ applying_attack = FALSE
    /\ attacksQueue = << >>
    /\ mqtt_alive = FALSE
    /\ dpc = "loop"
    /\ cur = NoMsg
    /\ rpc = "idle"
    /\ rmsg = NoMsg
    /\ sent = 0
    /\ started = << >>
    /\ running = {}
    /\ sawBusy = {}
    /\ late = {}

vars == <<plcVars, atkVars, extVars>>

----------------------------------------------------------------------------
(* The backing table of the tag store: rows (tag, value, timestamp).  A set *)
(* adds a row; a read returns the value of the most recent row of the tag.  *)

\* connector.initialize(initial_list): one row per tag, holding its default
SeedRows == {[tag |-> g, value |-> Seeded[g], timestamp |-> 0] : g \in DOMAIN Seeded}

StoreInit ==
    /\ table = SeedRows
    /\ clock = 1

\* connector.set(tag, value): a row stamped with the time of the write; the
\* store applies one write at a time and no two writes share a timestamp
StoreSet(tbl, ts, g, v) == tbl \cup {[tag |-> g, value |-> v, timestamp |-> ts]}

\* the rows of a tag that ORDER BY timestamp DESC puts first
LatestRows(tbl, g) ==
    LET rows == {r \in tbl : r.tag = g}
    IN {r \in rows : \A q \in rows : q.timestamp <= r.timestamp}

\* mutant: ORDER BY timestamp ASC, the oldest row is returned
read_oldest_value_from_sqlite(tbl, g) ==
    LET rows == {r \in tbl : r.tag = g}
        oldest == {r \in rows : \A q \in rows : q.timestamp >= r.timestamp}
    IN IF oldest = {} THEN "None" ELSE (CHOOSE r \in oldest : TRUE).value

\* SELECT value FROM table WHERE tag = ? ORDER BY timestamp DESC LIMIT 1;
\* None when the tag has no row
read_value_from_sqlite(tbl, g) ==
    IF LatestRows(tbl, g) = {} THEN "None"
    ELSE (CHOOSE r \in LatestRows(tbl, g) : TRUE).value

----------------------------------------------------------------------------
(* FactorySimulation: the physics loop.  Sensor values are in               *)
(* ten-thousandths, commands are read in hundredths, dt is in ms.           *)

(* Configs.PHYSICS.  Temperatures and the radiation baseline are in         *)
(* ten-thousandths, the gains and inertias in thousandths.                  *)
AMBIENT_TEMP == 2900000
HEAT_GAIN_K == 8
COOLING_K == 4
PRESSURE_K_TEMP == 35
PRESSURE_K_HEATER == 20
PRESSURE_K_SPRAY == 30
PRESSURE_K_RELIEF == 80
FLOW_INERTIA == 3
VALVE_INERTIA == 3
FLUX_INERTIA == 2
RAD_BASELINE == 200

\* a / b rounded to the nearest integer (b > 0)
RDiv(a, b) == (2 * a + b) \div (2 * b)

Max(a, b) == IF a >= b THEN a ELSE b

\* the tags FactorySimulation._logic writes, in the order it writes them
PhysWriteOrder ==
    << TAG_PRIMARY_LOOP_VALVE_POS_VALUE, TAG_CORE_NEUTRON_FLUX_VALUE,
       TAG_CORE_TEMP_IN_VALUE, TAG_CORE_TEMP_OUT_VALUE, TAG_CORE_PRESSURE_VALUE,
       TAG_CORE_FLOW_VALUE, TAG_SG_IN_PRESSURE_VALUE, TAG_PRIMARY_RAD_MON_VALUE >>

SensorTags == {PhysWriteOrder[i] : i \in 1..Len(PhysWriteOrder)}

\* lines 21-37: the number of _get calls before the first _set
NumPhysReads == 13

\* a sensor value as the physics loop reads it, in ten-thousandths
Fine(t, fr, g) == t[g] * 100 + fr[g]

\* random.gauss and random.random all drawing "no noise, no spike"
Quiet == [flux |-> 0, temp_out |-> 0, pressure |-> 0, sg |-> 0, rad |-> 0,
          spike |-> FALSE, sec |-> 0, level |-> 0]

\* lines 40-42: first-order lag of an effective valve position, clamped to [0,1]
ValveLag(eff, cmd, dt) ==
    Clamp(eff + RDiv((cmd * 100 - eff) * VALVE_INERTIA * dt, 1000), 0, 10000)

\* mutant: the reactivity grows with the rod position
ReactivityRising(rod_pos) == Max(500, RDiv(rod_pos * 5, 6))

\* line 48: max(0.05, 1.0 - rod_pos / 120.0), rod_pos in hundredths of a percent
Reactivity(rod_pos) == Max(500, 10000 - RDiv(rod_pos * 5, 6))

\* line 49: max(0.0, flux_sp * reactivity), flux_sp in hundredths
FluxTarget(flux_sp, rod_pos) == Max(0, RDiv(flux_sp * Reactivity(rod_pos), 100))

\* mutant: a draw below RAD_SPIKE_PROB starts a spike whether or not one is active
SpikeRestarting(sp, nw, n) ==
    LET s1 == IF n.spike
              THEN [active |-> TRUE, until |-> nw + n.sec, level |-> n.level]
              ELSE sp
    IN IF s1.active /\ nw >= s1.until THEN [s1 EXCEPT !.active = FALSE] ELSE s1

\* lines 81-89: the radiation spike state after this tick
SpikeAfter(sp, nw, n) ==
    LET s1 == IF ~sp.active /\ n.spike
              THEN [active |-> TRUE, until |-> nw + n.sec, level |-> n.level]
              ELSE sp
    IN IF s1.active /\ nw >= s1.until THEN [s1 EXCEPT !.active = FALSE] ELSE s1

(* lines 21-96: what one call computes from the store (t, fr), the engine's *)
(* fields h, dt, the wall clock nw and the random draws n: the sensor       *)
(* values to write (out) and the engine's fields afterwards.                *)
PhysicsCompute(t, fr, h, dt, nw, n) ==
    LET flux0 == Fine(t, fr, TAG_CORE_NEUTRON_FLUX_VALUE)
        temp_in0 == Fine(t, fr, TAG_CORE_TEMP_IN_VALUE)
        temp_out0 == Fine(t, fr, TAG_CORE_TEMP_OUT_VALUE)
        pressure0 == Fine(t, fr, TAG_CORE_PRESSURE_VALUE)
        flow0 == Fine(t, fr, TAG_CORE_FLOW_VALUE)
        rcp_cmd == t[TAG_CORE_RCP_SPEED_CMD]
        relief_open == IF t[TAG_CORE_RELIEF_VALVE_STATUS] # 0 THEN 1 ELSE 0
        flow1 == flow0 + RDiv((rcp_cmd * 100 - flow0) * FLOW_INERTIA * dt, 1000)
        veff == ValveLag(h.valve_eff, t[TAG_CORE_COOLANT_VALVE_CMD], dt)
        leff == ValveLag(h.loop_valve_eff, t[TAG_PRIMARY_LOOP_VALVE_CMD], dt)
        flux_target == FluxTarget(t[TAG_CORE_NEUTRON_FLUX_SP],
                                  t[TAG_CORE_CONTROL_ROD_POS_VALUE])
        flux1 == flux0 + RDiv((flux_target - flux0) * FLUX_INERTIA * dt, 1000)
        flux == Max(0, flux1 + n.flux)
        heat_gain == RDiv(HEAT_GAIN_K * flux * dt, 1000)
        effective_cooling_valve == RDiv(veff * leff, 10000)
        flow_eff == RDiv(flow1 * effective_cooling_valve, 10000)
        cool_loss == RDiv(RDiv(COOLING_K * dt * flow_eff, 1000)
                            * RDiv(Max(0, temp_out0 - AMBIENT_TEMP), 100), 100)
        temp_in == temp_in0 + RDiv((AMBIENT_TEMP - temp_in0) * dt, 1000)
        temp_out == temp_out0 + heat_gain - cool_loss + n.temp_out
        pressure_base == 147000 + RDiv(PRESSURE_K_TEMP * Max(0, temp_out - AMBIENT_TEMP), 1000)
        pressure1 == pressure0
                       + RDiv(PRESSURE_K_HEATER * t[TAG_CORE_PRESSURIZER_HEATER_CMD] * dt, 10000)
                       - RDiv(PRESSURE_K_SPRAY * t[TAG_CORE_PRESSURIZER_SPRAY_CMD] * dt, 10000)
                       - RDiv(PRESSURE_K_RELIEF * relief_open * dt, 100)
        pressure == RDiv(98 * pressure1 + 2 * pressure_base, 100) + n.pressure
        sg_pin == Max(0, pressure - 500 + n.sg)
        spike == SpikeAfter(h.rad_spike, nw, n)
        rad == Max(0, (IF spike.active THEN spike.level ELSE RAD_BASELINE) + n.rad)
        flow == Clamp(flow1, 0, 12000)
    IN [out |-> (TAG_PRIMARY_LOOP_VALVE_POS_VALUE :> leff) @@
                (TAG_CORE_NEUTRON_FLUX_VALUE :> flux) @@
                (TAG_CORE_TEMP_IN_VALUE :> temp_in) @@
                (TAG_CORE_TEMP_OUT_VALUE :> temp_out) @@
                (TAG_CORE_PRESSURE_VALUE :> pressure) @@
                (TAG_CORE_FLOW_VALUE :> flow) @@
                (TAG_SG_IN_PRESSURE_VALUE :> sg_pin) @@
                (TAG_PRIMARY_RAD_MON_VALUE :> rad),
        valve_eff |-> veff, loop_valve_eff |-> leff, rad_spike |-> spike]

\* lines 113-117: the engine's fields as init() sets them on the store t
FreshEngine(t) ==
    [valve_eff |-> t[TAG_CORE_COOLANT_VALVE_CMD] * 100,
     loop_valve_eff |-> t[TAG_PRIMARY_LOOP_VALVE_CMD] * 100,
     rad_spike |-> [active |-> FALSE, until |-> 0, level |-> RAD_BASELINE]]

NoTick == [dt |-> 0, failedAt |-> 0, quiet |-> TRUE, fresh |-> << >>, was |-> << >>]

\* FactorySimulation.__init__ / init on the store held by tags
PhysInit ==
    /\ frac = [g \in SensorTags |-> 0]
    /\ valve_eff = FreshEngine(tags).valve_eff
    /\ loop_valve_eff = FreshEngine(tags).loop_valve_eff
    /\ rad_spike = FreshEngine(tags).rad_spike
    /\ now = 0
    /\ ticks = 0
    /\ tick = NoTick

\* os.getenv returning None
Unset == "(unset)"

\* no *_HOST variable is set
NoEnv == [k \in {"plc1", "plc2", "hmi1", "hmi2"} |-> Unset]

\* no candidate path exists (lines 64-79)
NoFile == [found |-> FALSE, parses |-> FALSE, params |-> << >>]

\* __try_enable has not been called yet
NoAttempt == [found |-> FALSE, parses |-> FALSE, params |-> << >>, none |-> TRUE]

\* no second run has been started
NoTwin ==
    [writes |-> 0, tags |-> TAG_LIST, frac |-> [g \in SensorTags |-> 0],
     valve_eff |-> 0, loop_valve_eff |-> 0,
     rad_spike |-> [active |-> FALSE, until |-> 0, level |-> RAD_BASELINE]]

\* HMI1.__init__: every data row starts with empty cells
NoCells == [g \in DOMAIN TAG_LIST |-> [text |-> "", num |-> 0, colour |-> "none"]]

ExtInitIn(e) ==
    /\ StoreInit
    /\ PhysInit
    /\ failed = 0
    /\ env = e
    /\ invoked = << >>
    /\ rejected = {}
    /\ connfile = NoFile
    /\ attempted = NoAttempt
    /\ threadDesc = NoAttempt
    /\ edits = 0
    /\ display = NoCells
    /\ polls = 0
    /\ pending = << >>
    /\ wpos = 0
    /\ jointly = FALSE
    /\ lastFail = "none"
    /\ twin = NoTwin

ExtInit == ExtInitIn(NoEnv)

----------------------------------------------------------------------------
(* Spec: whole ControlLogic cycles, with no other writer, over stores whose *)
(* sensor, alarm and relief tags hold what the physics loop and earlier     *)
(* cycles may have left.                                                    *)

Init ==
    /\ \E to \in TempOutValues, p \in PressureValues, f \in FlowValues,
          r \in RadValues, al \in {0, 1}, rl \in {0, 1} :
         tags = [Seeded EXCEPT ![TAG_CORE_TEMP_OUT_VALUE] = to,
                               ![TAG_CORE_PRESSURE_VALUE] = p,
                               ![TAG_CORE_FLOW_VALUE] = f,
                               ![TAG_PRIMARY_RAD_MON_VALUE] = r,
                               ![TAG_CORE_ALARM_STATUS] = al,
                               ![TAG_CORE_RELIEF_VALVE_STATUS] = rl]
    /\ L = InitL
    /\ cycles = 0
    /\ pre = tags
    /\ ev = "init"
    /\ plcWrote = "none"
    /\ opWrites = 0
    /\ AtkInit
    /\ ExtInit

\* one whole call of PLC1._logic
ControlLogic ==
    /\ cycles < MaxCycles
    /\ tags' = RunCycle(tags, InitL).tags
    /\ pre' = tags
    /\ cycles' = cycles + 1
    /\ ev' = "cycle"
    /\ UNCHANGED <<L, plcWrote, opWrites>>
    /\ UNCHANGED <<atkVars, extVars>>

Next == ControlLogic

Spec == Init /\ [][Next]_vars

----------------------------------------------------------------------------
(* SpecOperator: whole ControlLogic cycles, with an operator (or an attack  *)
(* primitive) that sets actuators to manual and writes their command tags   *)
(* between the cycles.                                                      *)

\* (outlet temperature, pressure): the defaults, and both above their limits
OperatorScenarios == {<<30000, 1500>>, <<32100, 1600>>}

OperatorInit ==
    /\ \E sc \in OperatorScenarios :
         tags = [Seeded EXCEPT ![TAG_CORE_TEMP_OUT_VALUE] = sc[1],
                               ![TAG_CORE_PRESSURE_VALUE] = sc[2]]
    /\ L = InitL
    /\ cycles = 0
    /\ pre = tags
    /\ ev = "init"
    /\ plcWrote = "none"
    /\ opWrites = 0
    /\ AtkInit
    /\ ExtInit

ManualCount(t) == Cardinality({a \in Actuators : IsManual(t[ModeTag(a)])})

\* the operator (HMI) or an attack primitive sets a mode tag to manual
OperatorSetMode(a, m) ==
    /\ cycles < MaxCycles
    /\ tags[ModeTag(a)] # m
    /\ IsManual(tags[ModeTag(a)]) \/ ManualCount(tags) < MaxManual
    /\ tags' = [tags EXCEPT ![ModeTag(a)] = m]
    /\ ev' = "operator"
    /\ UNCHANGED <<L, cycles, pre, plcWrote, opWrites>>
    /\ UNCHANGED <<atkVars, extVars>>

\* the operator or an attack primitive writes a command through the manual path
OperatorWrite(a, v) ==
    /\ cycles < MaxCycles
    /\ IsManual(tags[ModeTag(a)])
    /\ tags[CmdTag(a)] # v
    /\ tags' = [tags EXCEPT ![CmdTag(a)] = v]
    /\ ev' = "operator"
    /\ UNCHANGED <<L, cycles, pre, plcWrote, opWrites>>
    /\ UNCHANGED <<atkVars, extVars>>

OperatorNext ==
    \/ \E a \in Actuators, m \in {1, 2} : OperatorSetMode(a, m)
    \/ \E a \in Actuators, v \in ManualValues : OperatorWrite(a, v)
    \/ ControlLogic

SpecOperator == OperatorInit /\ [][OperatorNext]_vars

----------------------------------------------------------------------------
(* Claims about one whole ControlLogic cycle.  In a state with ev = "cycle" *)
(* pre is the store the cycle read and tags the store it left.              *)

AfterCycle == ev = "cycle"

\* C1: for every guarded actuator whose mode tag is manual when the cycle
\* starts, the command tag holds after the cycle (no other writer) exactly
\* the value it held before it.
C1_ManualCommandRetained ==
    AfterCycle =>
        \A a \in Actuators :
            IsManual(pre[ModeTag(a)]) => tags[CmdTag(a)] = pre[CmdTag(a)]

\* C1 witness: a cycle has run over a manual actuator holding the written 0.37
C1_Witness ==
    /\ AfterCycle
    /\ \E a \in Actuators :
         /\ IsManual(pre[ModeTag(a)])
         /\ pre[CmdTag(a)] = 37
         /\ tags[CmdTag(a)] = 37

\* C3: a cycle that reads the alarm as tripped clears it exactly when all
\* four values it read are inside their clear margins (temp < max - 0.5,
\* pressure < max - 0.05, flow > min + 0.02, radiation < max - 0.02);
\* otherwise the alarm stays as it was.
C3_ClearOnlyWithinAllMargins ==
    (AfterCycle /\ pre[TAG_CORE_ALARM_STATUS] # 0) =>
        IF /\ pre[TAG_CORE_TEMP_OUT_VALUE] < pre[TAG_CORE_TEMP_OUT_MAX] - 50
           /\ pre[TAG_CORE_PRESSURE_VALUE] < pre[TAG_CORE_PRESSURE_MAX] - 5
           /\ pre[TAG_CORE_FLOW_VALUE] > pre[TAG_CORE_FLOW_MIN] + 2
           /\ pre[TAG_PRIMARY_RAD_MON_VALUE] < pre[TAG_PRIMARY_RAD_ALARM_MAX] - 2
        THEN tags[TAG_CORE_ALARM_STATUS] = 0
        ELSE tags[TAG_CORE_ALARM_STATUS] = pre[TAG_CORE_ALARM_STATUS]

\* C3 witness: tripped, outlet temperature at max - 0.1 and the other three
\* conditions clear: the alarm is still tripped after the cycle
C3_Witness ==
    /\ AfterCycle
    /\ pre[TAG_CORE_ALARM_STATUS] = 1
    /\ pre[TAG_CORE_TEMP_OUT_VALUE] = pre[TAG_CORE_TEMP_OUT_MAX] - 10
    /\ pre[TAG_CORE_PRESSURE_VALUE] < pre[TAG_CORE_PRESSURE_MAX] - 5
    /\ pre[TAG_CORE_FLOW_VALUE] > pre[TAG_CORE_FLOW_MIN] + 2
    /\ pre[TAG_PRIMARY_RAD_MON_VALUE] < pre[TAG_PRIMARY_RAD_ALARM_MAX] - 2
    /\ tags[TAG_CORE_ALARM_STATUS] = 1

\* C4: a cycle that reads the alarm as clear leaves it tripped if and only
\* if outlet temp > max, or pressure > max, or flow < min, or radiation > max
\* holds of the values it read.
C4_TripIffAnyLimitExceeded ==
    (AfterCycle /\ pre[TAG_CORE_ALARM_STATUS] = 0) =>
        ( tags[TAG_CORE_ALARM_STATUS] # 0
          <=> \/ pre[TAG_CORE_TEMP_OUT_VALUE] > pre[TAG_CORE_TEMP_OUT_MAX]
              \/ pre[TAG_CORE_PRESSURE_VALUE] > pre[TAG_CORE_PRESSURE_MAX]
              \/ pre[TAG_CORE_FLOW_VALUE] < pre[TAG_CORE_FLOW_MIN]
              \/ pre[TAG_PRIMARY_RAD_MON_VALUE] > pre[TAG_PRIMARY_RAD_ALARM_MAX] )

\* C4 witness: clear, and radiation alone above its max: tripped after the cycle
C4_Witness ==
    /\ AfterCycle
    /\ pre[TAG_CORE_ALARM_STATUS] = 0
    /\ pre[TAG_PRIMARY_RAD_MON_VALUE] > pre[TAG_PRIMARY_RAD_ALARM_MAX]
    /\ pre[TAG_CORE_TEMP_OUT_VALUE] <= pre[TAG_CORE_TEMP_OUT_MAX]
    /\ pre[TAG_CORE_PRESSURE_VALUE] <= pre[TAG_CORE_PRESSURE_MAX]
    /\ pre[TAG_CORE_FLOW_VALUE] >= pre[TAG_CORE_FLOW_MIN]
    /\ tags[TAG_CORE_ALARM_STATUS] = 1

\* the values a cycle read neither trip the alarm nor satisfy all four clear
\* margins: they lie between the clear margin and the trip threshold
InDeadBand(t) ==
    /\ t[TAG_CORE_TEMP_OUT_VALUE] <= t[TAG_CORE_TEMP_OUT_MAX]
    /\ t[TAG_CORE_PRESSURE_VALUE] <= t[TAG_CORE_PRESSURE_MAX]
    /\ t[TAG_CORE_FLOW_VALUE] >= t[TAG_CORE_FLOW_MIN]
    /\ t[TAG_PRIMARY_RAD_MON_VALUE] <= t[TAG_PRIMARY_RAD_ALARM_MAX]
    /\ \/ t[TAG_CORE_TEMP_OUT_VALUE] >= t[TAG_CORE_TEMP_OUT_MAX] - 50
       \/ t[TAG_CORE_PRESSURE_VALUE] >= t[TAG_CORE_PRESSURE_MAX] - 5
       \/ t[TAG_CORE_FLOW_VALUE] <= t[TAG_CORE_FLOW_MIN] + 2
       \/ t[TAG_PRIMARY_RAD_MON_VALUE] >= t[TAG_PRIMARY_RAD_ALARM_MAX] - 2

\* C5: with the sensor and limit tags fixed and no other writer, the alarm
\* after the first cycle is the alarm after every further cycle (a second or
\* later cycle never changes it), and a cycle over dead-band values leaves
\* the alarm as it read it, tripped or clear.
C5_AlarmLatchIdempotent ==
    /\ (AfterCycle /\ cycles >= 2) =>
           tags[TAG_CORE_ALARM_STATUS] = pre[TAG_CORE_ALARM_STATUS]
    /\ (AfterCycle /\ InDeadBand(pre)) =>
           tags[TAG_CORE_ALARM_STATUS] = pre[TAG_CORE_ALARM_STATUS]

\* C5 witness: a second cycle has run with the temperature still above max
\* and the alarm is tripped after it as it was after the first
C5_Witness ==
    /\ AfterCycle
    /\ cycles = 2
    /\ pre[TAG_CORE_TEMP_OUT_VALUE] > pre[TAG_CORE_TEMP_OUT_MAX]
    /\ pre[TAG_CORE_ALARM_STATUS] = 1
    /\ tags[TAG_CORE_ALARM_STATUS] = 1

\* C10: after a cycle the relief-valve status is 1 if the pressure read is
\* above hihi, 0 if it is not above hihi and below max - 0.05, and otherwise
\* the status the cycle read.
C10_ReliefValveLatch ==
    AfterCycle =>
        tags[TAG_CORE_RELIEF_VALVE_STATUS] =
            IF pre[TAG_CORE_PRESSURE_VALUE] > pre[TAG_CORE_PRESSURE_HIHI] THEN 1
            ELSE IF pre[TAG_CORE_PRESSURE_VALUE] < pre[TAG_CORE_PRESSURE_MAX] - 5 THEN 0
            ELSE pre[TAG_CORE_RELIEF_VALVE_STATUS]

\* C10 witness: open, pressure in the dead band (above max - 0.05, not above
\* hihi): still open after the cycle
C10_Witness ==
    /\ AfterCycle
    /\ pre[TAG_CORE_RELIEF_VALVE_STATUS] = 1
    /\ pre[TAG_CORE_PRESSURE_VALUE] >= pre[TAG_CORE_PRESSURE_MAX] - 5
    /\ pre[TAG_CORE_PRESSURE_VALUE] <= pre[TAG_CORE_PRESSURE_HIHI]
    /\ tags[TAG_CORE_RELIEF_VALVE_STATUS] = 1

----------------------------------------------------------------------------
(* SpecRace: PLC1._logic one tag-store access at a time, interleaved with   *)
(* another writer (the operator's HMI, an attack primitive) that sets mode  *)
(* and command tags on its own timing.  The store offers no locking and no  *)
(* multi-tag atomicity: every single get or set is one step.                *)

RaceInit ==
    /\ tags = Seeded
    /\ L = InitL
    /\ cycles = 0
    /\ pre = tags
    /\ ev = "init"
    /\ plcWrote = "none"
    /\ opWrites = 0
    /\ AtkInit
    /\ ExtInit

\* the next tag-store access of PLC1._logic; after the last one the call
\* returns and the next call starts with fresh locals
PlcStep ==
    /\ cycles < MaxRaceCycles
    /\ LET r == PLCStep(tags, L) IN
         /\ tags' = r.tags
         /\ plcWrote' = r.wrote
         /\ L' = IF Done(r.l) THEN InitL ELSE r.l
         /\ cycles' = IF Done(r.l) THEN cycles + 1 ELSE cycles
    /\ pre' = IF L.pc = 1 THEN tags ELSE pre
    /\ ev' = "plc"
    /\ UNCHANGED opWrites
    /\ UNCHANGED <<atkVars, extVars>>

\* another device writes a mode tag
WriterSetMode(a, m) ==
    /\ opWrites < MaxOpWrites
    /\ tags[ModeTag(a)] # m
    /\ tags' = [tags EXCEPT ![ModeTag(a)] = m]
    /\ opWrites' = opWrites + 1
    /\ plcWrote' = "none"
    /\ ev' = "operator"
    /\ UNCHANGED <<L, cycles, pre>>
    /\ UNCHANGED <<atkVars, extVars>>

\* another device writes a command tag
WriterSetCommand(a, v) ==
    /\ opWrites < MaxOpWrites
    /\ tags[CmdTag(a)] # v
    /\ tags' = [tags EXCEPT ![CmdTag(a)] = v]
    /\ opWrites' = opWrites + 1
    /\ plcWrote' = "none"
    /\ ev' = "operator"
    /\ UNCHANGED <<L, cycles, pre>>
    /\ UNCHANGED <<atkVars, extVars>>

RaceNext ==
    \/ PlcStep
    \/ \E a \in Actuators, m \in {1, 2, 3} : WriterSetMode(a, m)
    \/ \E a \in Actuators, v \in ManualValues : WriterSetCommand(a, v)

SpecRace == RaceInit /\ [][RaceNext]_vars

\* C2 (as claimed): whenever ControlLogic has just written an actuator
\* command tag, the paired mode tag does not hold a manual value at that
\* moment, under every interleaving with other writers.
C2_NoWriteWhileManual ==
    \A a \in Actuators :
        plcWrote = CmdTag(a) => ~IsManual(tags[ModeTag(a)])

\* C2 (amended): whenever ControlLogic has just written an actuator command
\* tag, the mode check of that branch, made earlier in the same cycle, read
\* a non-manual value.
C2_WriteOnlyAfterAutoCheck ==
    \A a \in Actuators :
        plcWrote = CmdTag(a) => ~L.manual

\* C2 witness: the controller checked the mode as auto, the mode was then
\* switched to manual, and the controller has just written the command
C2_Witness ==
    \E a \in Actuators :
        /\ plcWrote = CmdTag(a)
        /\ IsManual(tags[ModeTag(a)])
        /\ ~L.manual

----------------------------------------------------------------------------
(* SpecAtk: AttackerRemote.  The dispatch loop (the Runnable loop calling   *)
(* _logic) and the MQTT client thread (on_message, on_disconnect) run       *)
(* concurrently and share enabled, applying_attack and attacksQueue.        *)

MaxMsgs == 3

\* the attack discriminators process_messages dispatches on (lines 178-200)
RecognizedAttacks == {"ip-scan", "ddos", "port-scan", "mitm", "replay"}
\* the discriminators of the messages delivered in the model
MsgAttacks == {"ddos", "bogus"}

QueueIds == {attacksQueue[i].id : i \in 1..Len(attacksQueue)}
StartedIds == {started[i] : i \in 1..Len(started)}

\* a command has been accepted (queued or handed to process_messages) and
\* process_messages has not yet finished with it
Incomplete == Len(attacksQueue) > 0 \/ cur # NoMsg

\* mutant: the dispatch loop calls _logic again while an attack still runs
LogicReadyDuringAttack(pc) == pc \in {"loop", "attack"}

\* the Runnable loop calls _logic again only once the previous call, and with
\* it process_messages and the attack primitive, has returned
LogicReady(pc) == pc = "loop"

\* mutant: on_message queues the message whatever the in-flight flag says
AcceptsAlways(flag) == TRUE

\* on_message, line 163: the message is queued only if no attack is applying
Accepts(flag) == ~flag

\* __try_enable, lines 64-104: no usable connection file; sleep and retry
TryEnableFails ==
    /\ LogicReady(dpc) /\ ~enabled
    /\ dpc' = "retry"
    /\ UNCHANGED <<enabled, applying_attack, attacksQueue, mqtt_alive, cur, rpc, rmsg,
                   sent, started, running, sawBusy, late>>
    /\ lastFail' = "descriptor"
    /\ UNCHANGED <<plcVars, storeVars, physVars, cycVars, cmdVars, cfgVars, hmiVars, tearVars, twinVars>>

\* time.sleep(self._retry_interval) returns, and with it _logic
RetryWakes ==
    /\ dpc = "retry"
    /\ dpc' = "loop"
    /\ UNCHANGED <<enabled, applying_attack, attacksQueue, mqtt_alive, cur, rpc, rmsg,
                   sent, started, running, sawBusy, late>>
    /\ lastFail' = "none"
    /\ UNCHANGED <<plcVars, storeVars, physVars, cycVars, cmdVars, cfgVars, hmiVars, tearVars, twinVars>>

\* __try_enable, lines 114-116: the client thread is started unless alive
StartClientThread ==
    /\ LogicReady(dpc) /\ ~enabled
    /\ mqtt_alive' = TRUE
    /\ dpc' = "enable"
    /\ UNCHANGED <<enabled, applying_attack, attacksQueue, cur, rpc, rmsg,
                   sent, started, running, sawBusy, late>>
    /\ lastFail' = "none"
    /\ UNCHANGED <<plcVars, storeVars, physVars, cycVars, cmdVars, cfgVars, hmiVars, tearVars, twinVars>>

\* __try_enable, line 117
SetEnabled ==
    /\ dpc = "enable"
    /\ enabled' = TRUE
    /\ dpc' = "loop"
    /\ UNCHANGED <<applying_attack, attacksQueue, mqtt_alive, cur, rpc, rmsg,
                   sent, started, running, sawBusy, late>>
    /\ UNCHANGED <<plcVars, extVars>>

\* setup_mqtt_client, lines 145-148: the client thread fails and ends
ClientSetupFails ==
    /\ mqtt_alive /\ rpc = "idle"
    /\ mqtt_alive' = FALSE
    /\ enabled' = FALSE
    /\ UNCHANGED <<applying_attack, attacksQueue, dpc, cur, rpc, rmsg,
                   sent, started, running, sawBusy, late>>
    /\ lastFail' = "client"
    /\ UNCHANGED <<plcVars, storeVars, physVars, cycVars, cmdVars, cfgVars, hmiVars, tearVars, twinVars>>

\* mutant: a disconnect abandons the attack in progress and clears the flag
OnDisconnectCancels ==
    /\ mqtt_alive /\ rpc = "idle" /\ enabled
    /\ enabled' = FALSE
    /\ applying_attack' = FALSE
    /\ running' = {}
    /\ UNCHANGED <<attacksQueue, mqtt_alive, dpc, cur, rpc, rmsg,
                   sent, started, sawBusy, late>>
    /\ UNCHANGED <<plcVars, extVars>>

\* on_disconnect, lines 153-156 (the client loop keeps running)
OnDisconnect ==
    /\ mqtt_alive /\ rpc = "idle" /\ enabled
    /\ enabled' = FALSE
    /\ UNCHANGED <<applying_attack, attacksQueue, mqtt_alive, dpc, cur, rpc, rmsg,
                   sent, started, running, sawBusy, late>>
    /\ UNCHANGED <<plcVars, extVars>>

\* mutant: the loop sleeps whether or not a command is queued
SleepsWhateverQueued ==
    /\ LogicReady(dpc) /\ enabled
    /\ dpc' = "sleep"
    /\ UNCHANGED <<enabled, applying_attack, attacksQueue, mqtt_alive, cur, rpc, rmsg,
                   sent, started, running, sawBusy, late>>
    /\ UNCHANGED <<plcVars, extVars>>

\* _logic, lines 39-40: nothing queued
Sleeps ==
    /\ LogicReady(dpc) /\ enabled /\ attacksQueue = << >>
    /\ dpc' = "sleep"
    /\ UNCHANGED <<enabled, applying_attack, attacksQueue, mqtt_alive, cur, rpc, rmsg,
                   sent, started, running, sawBusy, late>>
    /\ UNCHANGED <<plcVars, extVars>>

\* time.sleep(2) returns, and with it _logic
Wakes ==
    /\ dpc = "sleep"
    /\ dpc' = "loop"
    /\ UNCHANGED <<enabled, applying_attack, attacksQueue, mqtt_alive, cur, rpc, rmsg,
                   sent, started, running, sawBusy, late>>
    /\ UNCHANGED <<plcVars, extVars>>

\* mutant: the queue is a stack, the newest command is taken first
TakeNewestMessage ==
    /\ LogicReady(dpc) /\ enabled /\ attacksQueue # << >>
    /\ cur' = attacksQueue[Len(attacksQueue)]
    /\ attacksQueue' = SubSeq(attacksQueue, 1, Len(attacksQueue) - 1)
    /\ dpc' = "process"
    /\ UNCHANGED <<enabled, applying_attack, mqtt_alive, rpc, rmsg,
                   sent, started, running, sawBusy, late>>
    /\ UNCHANGED <<plcVars, extVars>>

\* _logic, lines 37-38: process_messages(self.attacksQueue.get()) is called
TakeMessage ==
    /\ LogicReady(dpc) /\ enabled /\ attacksQueue # << >>
    /\ cur' = Head(attacksQueue)
    /\ attacksQueue' = Tail(attacksQueue)
    /\ dpc' = "process"
    /\ UNCHANGED <<enabled, applying_attack, mqtt_alive, rpc, rmsg,
                   sent, started, running, sawBusy, late>>
    /\ UNCHANGED <<plcVars, extVars>>

\* process_messages, line 169
SetFlag ==
    /\ dpc = "process"
    /\ applying_attack' = TRUE
    /\ dpc' = "dispatch"
    /\ UNCHANGED <<enabled, attacksQueue, mqtt_alive, cur, rpc, rmsg,
                   sent, started, running, sawBusy, late>>
    /\ UNCHANGED <<plcVars, extVars>>

\* process_messages, lines 178-209: the attack primitive is invoked
StartAttack ==
    /\ dpc = "dispatch"
    /\ cur.attack \in RecognizedAttacks
    /\ started' = Append(started, cur.id)
    /\ running' = running \cup {cur.id}
    /\ dpc' = "attack"
    /\ UNCHANGED <<enabled, applying_attack, attacksQueue, mqtt_alive, cur, rpc, rmsg,
                   sent, sawBusy, late>>
    /\ UNCHANGED <<plcVars, extVars>>

\* process_messages, lines 211-214: the command fails and is reported
RejectCommand ==
    /\ dpc = "dispatch"
    /\ cur.attack \notin RecognizedAttacks
    /\ dpc' = "finish"
    /\ UNCHANGED <<enabled, applying_attack, attacksQueue, mqtt_alive, cur, rpc, rmsg,
                   sent, started, running, sawBusy, late>>
    /\ UNCHANGED <<plcVars, extVars>>

\* the attack primitive returns (or raises) on its completion or timeout
AttackReturns ==
    /\ dpc = "attack"
    /\ running' = running \ {cur.id}
    /\ dpc' = "finish"
    /\ UNCHANGED <<enabled, applying_attack, attacksQueue, mqtt_alive, cur, rpc, rmsg,
                   sent, started, sawBusy, late>>
    /\ UNCHANGED <<plcVars, extVars>>

\* process_messages, line 216, and the return to the Runnable loop
ClearFlag ==
    /\ dpc = "finish"
    /\ applying_attack' = FALSE
    /\ cur' = NoMsg
    /\ dpc' = "loop"
    /\ UNCHANGED <<enabled, attacksQueue, mqtt_alive, rpc, rmsg,
                   sent, started, running, sawBusy, late>>
    /\ UNCHANGED <<plcVars, extVars>>

\* on_message, lines 161-165: a message arrives; the in-flight flag is read
OnMessage(k) ==
    /\ mqtt_alive /\ rpc = "idle" /\ sent < MaxMsgs
    /\ LET m == [id |-> sent + 1, attack |-> k] IN
         /\ sent' = sent + 1
         /\ sawBusy' = IF applying_attack THEN sawBusy \cup {m.id} ELSE sawBusy
         /\ late' = IF Incomplete THEN late \cup {m.id} ELSE late
         /\ IF Accepts(applying_attack)
            THEN rpc' = "put" /\ rmsg' = m
            ELSE rpc' = "idle" /\ rmsg' = NoMsg
    /\ UNCHANGED <<enabled, applying_attack, attacksQueue, mqtt_alive, dpc, cur,
                   started, running>>
    /\ UNCHANGED <<plcVars, extVars>>

\* on_message, line 166: self.attacksQueue.put(msg)
OnMessagePut ==
    /\ rpc = "put"
    /\ attacksQueue' = Append(attacksQueue, rmsg)
    /\ rmsg' = NoMsg
    /\ rpc' = "idle"
    /\ UNCHANGED <<enabled, applying_attack, mqtt_alive, dpc, cur,
                   sent, started, running, sawBusy, late>>
    /\ UNCHANGED <<plcVars, extVars>>

IdleStore ==
    /\ tags = Seeded
    /\ L = InitL
    /\ cycles = 0
    /\ pre = tags
    /\ ev = "init"
    /\ plcWrote = "none"
    /\ opWrites = 0

AtkSpecInit == IdleStore /\ AtkInit /\ ExtInit

AtkNext ==
    \/ TryEnableFails
    \/ RetryWakes
    \/ StartClientThread
    \/ SetEnabled
    \/ ClientSetupFails
    \/ OnDisconnect
    \/ Sleeps
    \/ Wakes
    \/ TakeMessage
    \/ SetFlag
    \/ StartAttack
    \/ RejectCommand
    \/ AttackReturns
    \/ ClearFlag
    \/ \E k \in MsgAttacks : OnMessage(k)
    \/ OnMessagePut

SpecAtk == AtkSpecInit /\ [][AtkNext]_vars

\* commands accepted and not yet started: queued, or taken from the queue
\* with the primitive not yet invoked
Pending == Len(attacksQueue) + (IF dpc \in {"process", "dispatch"} THEN 1 ELSE 0)

\* C6: a message whose on_message found the in-flight flag set is discarded:
\* it is never queued, never handed to process_messages and its attack is
\* never invoked.
C6_BusyArrivalDiscarded ==
    \A id \in sawBusy :
        /\ id \notin QueueIds
        /\ id \notin StartedIds
        /\ cur.id # id
        /\ rmsg.id # id

\* C6 witness: a ddos is executing and a message that arrived meanwhile found
\* the flag set
C6_Witness ==
    /\ dpc = "attack"
    /\ cur.attack = "ddos"
    /\ sawBusy # {}

\* C7 (as claimed): a command that arrived while an earlier accepted command
\* was incomplete (queued and waiting, or being processed) never has its
\* attack primitive invoked.
C7_LateCommandNeverStarted == StartedIds \cap late = {}

\* C8: at most one attack primitive is executing at any moment.
C8_AtMostOneExecuting == Cardinality(running) <= 1

\* C8 witness: a second attack is executing, after the first has returned,
\* and a message arrived while one was executing
C8_Witness ==
    /\ Len(started) = 2
    /\ running = {started[2]}
    /\ sawBusy # {}

\* C9 (as claimed): never more than one command is accepted and not started.
C9_PendingAtMostOne == Pending <= 1

----------------------------------------------------------------------------
(* SpecStore: PLC1._logic one tag-store access at a time and an attack      *)
(* primitive, both working on the backing table.  Every read is the query   *)
(* of read_value_from_sqlite; tags keeps, per tag, the value of the write   *)
(* that was applied last.                                                   *)

\* the actuators whose command tag the attack side writes
StoreActuators == {"rcp"}

\* what the devices read: per tag, the answer of the query
StoreView(tbl) == [g \in DOMAIN Seeded |-> read_value_from_sqlite(tbl, g)]

StoreSpecInit ==
    /\ tags = Seeded
    /\ L = InitL
    /\ cycles = 0
    /\ pre = tags
    /\ ev = "init"
    /\ plcWrote = "none"
    /\ opWrites = 0
    /\ AtkInit
    /\ ExtInit

\* the next tag-store access of PLC1._logic, against the table
StorePlcStep ==
    /\ cycles < MaxRaceCycles
    /\ LET r == PLCStep(StoreView(table), L) IN
         /\ plcWrote' = r.wrote
         /\ L' = IF Done(r.l) THEN InitL ELSE r.l
         /\ cycles' = IF Done(r.l) THEN cycles + 1 ELSE cycles
         /\ IF r.wrote = "none"
            THEN UNCHANGED <<tags, table, clock>>
            ELSE /\ table' = StoreSet(table, clock, r.wrote, r.tags[r.wrote])
                 /\ clock' = clock + 1
                 /\ tags' = [tags EXCEPT ![r.wrote] = r.tags[r.wrote]]
    /\ pre' = IF L.pc = 1 THEN tags ELSE pre
    /\ ev' = "plc"
    /\ UNCHANGED opWrites
    /\ UNCHANGED <<atkVars, physVars, cycVars, cmdVars, cfgVars, hmiVars, tearVars, boVars, twinVars>>

\* an attack primitive (or the operator) writes a command tag
StoreAttackWrite(a, v) ==
    /\ opWrites < MaxOpWrites
    /\ table' = StoreSet(table, clock, CmdTag(a), v)
    /\ clock' = clock + 1
    /\ tags' = [tags EXCEPT ![CmdTag(a)] = v]
    /\ opWrites' = opWrites + 1
    /\ plcWrote' = "none"
    /\ ev' = "operator"
    /\ UNCHANGED <<L, cycles, pre>>
    /\ UNCHANGED <<atkVars, physVars, cycVars, cmdVars, cfgVars, hmiVars, tearVars, boVars, twinVars>>

StoreNext ==
    \/ StorePlcStep
    \/ \E a \in StoreActuators, v \in ManualValues : StoreAttackWrite(a, v)

SpecStore == StoreSpecInit /\ [][StoreNext]_vars

\* C11: under every interleaving of ControlLogic's and the attack side's
\* writes, a read of any tag returns the value of the write that was applied
\* to it last: no write is blocked, merged or rejected.
C11_LastWriterWins ==
    \A g \in DOMAIN Seeded : read_value_from_sqlite(table, g) = tags[g]

\* C11 witness: the attack side wrote 0.37 to the pump-speed command after
\* ControlLogic had read it, ControlLogic then wrote its own value, and a
\* read returns ControlLogic's value
C11_Witness ==
    /\ plcWrote = TAG_CORE_RCP_SPEED_CMD
    /\ \E r \in table :
         r.tag = TAG_CORE_RCP_SPEED_CMD /\ r.value = 37 /\ r.timestamp > 0
    /\ read_value_from_sqlite(table, TAG_CORE_RCP_SPEED_CMD) = 60

----------------------------------------------------------------------------
(* SpecPhysics: calls of FactorySimulation._logic, any of whose tag-store   *)
(* accesses may fail, with another device writing valve commands between    *)
(* the calls.                                                               *)

MaxTicks == 2

\* self._current_loop_time - self._last_loop_time, in ms
Elapsed == {0, 100}

\* a draw with noise on every sensor and a radiation spike starting
Noisy == [flux |-> 20, temp_out |-> -200, pressure |-> 20, sg |-> -10, rad |-> 50,
          spike |-> TRUE, sec |-> 3000, level |-> 3500]

Draws == {Quiet, Noisy}

\* the access that raises: none (0), a _get (3), the _set of line 45 (14),
\* the _set of the outlet temperature (17), the last _set (21)
FailPoints == {0, 3, 14, 17, 21}

(* One call of FactorySimulation._logic.  With k = 0 every access succeeds. *)
(* Otherwise access number k raises: the accesses before it have been made, *)
(* the fields assigned before it keep their new values, and the call ends.  *)
PhysicsTickOn(elapsed, n, k) ==
    /\ LET dt == IF elapsed <= 0 THEN 1 ELSE elapsed
           nw == now + elapsed
           h == [valve_eff |-> valve_eff, loop_valve_eff |-> loop_valve_eff,
                 rad_spike |-> rad_spike]
           r == PhysicsCompute(tags, frac, h, dt, nw, n)
           j == IF k = 0 THEN Len(PhysWriteOrder)
                ELSE IF k <= NumPhysReads THEN 0
                ELSE k - NumPhysReads - 1
           W == {PhysWriteOrder[i] : i \in 1..j}
       IN /\ tags' = [g \in DOMAIN tags |-> IF g \in W THEN r.out[g] \div 100 ELSE tags[g]]
          /\ frac' = [g \in SensorTags |-> IF g \in W THEN r.out[g] % 100 ELSE frac[g]]
          /\ valve_eff' = IF k = 0 \/ k > NumPhysReads THEN r.valve_eff ELSE valve_eff
          /\ loop_valve_eff' =
                 IF k = 0 \/ k > NumPhysReads THEN r.loop_valve_eff ELSE loop_valve_eff
          /\ rad_spike' = IF k = 0 \/ k > NumPhysReads + 1 THEN r.rad_spike ELSE rad_spike
          /\ now' = nw
          /\ tick' = [dt |-> dt, failedAt |-> k, quiet |-> (n = Quiet),
                      fresh |-> PhysicsCompute(tags, frac, FreshEngine(tags), dt, nw, n).out,
                      was |-> h]
    /\ ticks' = ticks + 1
    /\ pre' = tags
    /\ ev' = "tick"
    /\ UNCHANGED <<L, cycles, plcWrote, opWrites>>
    /\ UNCHANGED <<atkVars, storeVars, cycVars, cmdVars, cfgVars, hmiVars, tearVars, boVars>>

\* a call of FactorySimulation._logic where no second run is kept
PhysicsTick(elapsed, n, k) ==
    /\ PhysicsTickOn(elapsed, n, k)
    /\ UNCHANGED twinVars

PhysNext ==
    \/ \E e \in Elapsed, n \in Draws, k \in FailPoints :
         ticks < MaxTicks /\ PhysicsTick(e, n, k)
    \/ \E a \in {"coolant_valve", "loop_valve"}, v \in ManualValues : WriterSetCommand(a, v)

SpecPhysics == RaceInit /\ [][PhysNext]_vars

\* C12 (as claimed): a tick in which a tag-store access failed leaves every
\* tag as it was before the tick.
C12_FailedTickLeavesStore ==
    (ev = "tick" /\ tick.failedAt # 0) => tags = pre

\* C16 (as claimed): with noise off, the sensor values a tick writes are the
\* values an engine constructed on the same store just before the tick, and
\* run with the same dt, writes: they depend on the tags read and dt alone.
C16_TickFunctionOfTagsAndDt ==
    (ev = "tick" /\ tick.failedAt = 0 /\ tick.quiet) =>
        \A g \in SensorTags : Fine(tags, frac, g) = tick.fresh[g]

----------------------------------------------------------------------------
(* SpecPlcFail: whole ControlLogic cycles in which one tag-store access may *)
(* fail.  PLC1._logic has no handler around its accesses: the exception     *)
(* leaves _logic at the failing access.                                     *)

\* a cycle on store t up to, and not including, access k (no access has
\* position 0: with k = 0 the cycle runs to its end)
RECURSIVE RunCycleUntil(_, _, _)
RunCycleUntil(t, l, k) ==
    IF Done(l) \/ l.pc = k THEN [tags |-> t, l |-> l]
    ELSE LET r == PLCStep(t, l) IN RunCycleUntil(r.tags, r.l, k)

\* the accesses made inside the guarded actuator branches (lines 36-86 and
\* 97-99): positions in Program
BranchAccesses == (Len(ReadInputs) + 1 .. Len(ReadInputs) + 18) \cup
                  (Len(ReadInputs) + 21 .. Len(ReadInputs) + 22)

\* the access that raises: none, the _get of the rod position (line 37), the
\* _set of the cooling-valve command (line 59), the _set of the spray (line 86)
PlcFailPoints == {0, Len(ReadInputs) + 2, Len(ReadInputs) + 9, Len(ReadInputs) + 18}

\* (outlet temperature, pressure, flow, radiation) read by the cycle
PlcFailScenarios ==
    {30000, 32100} \X {1500, 1600} \X {60, 45} \X {2, 30}

PlcFailInit ==
    /\ \E sc \in PlcFailScenarios :
         tags = [Seeded EXCEPT ![TAG_CORE_TEMP_OUT_VALUE] = sc[1],
                               ![TAG_CORE_PRESSURE_VALUE] = sc[2],
                               ![TAG_CORE_FLOW_VALUE] = sc[3],
                               ![TAG_PRIMARY_RAD_MON_VALUE] = sc[4]]
    /\ L = InitL
    /\ cycles = 0
    /\ pre = tags
    /\ ev = "init"
    /\ plcWrote = "none"
    /\ opWrites = 0
    /\ AtkInit
    /\ ExtInit

\* one call of PLC1._logic in which access k, if reached, raises
ControlLogicFailing(k) ==
    /\ cycles < MaxCycles
    /\ LET r == RunCycleUntil(tags, InitL, k) IN
         /\ tags' = r.tags
         /\ failed' = IF Done(r.l) THEN 0 ELSE k
    /\ pre' = tags
    /\ cycles' = cycles + 1
    /\ ev' = "cycle"
    /\ UNCHANGED <<L, plcWrote, opWrites>>
    /\ UNCHANGED <<atkVars, storeVars, physVars, cmdVars, cfgVars, hmiVars, tearVars, boVars, twinVars>>

PlcFailNext == \E k \in PlcFailPoints : ControlLogicFailing(k)

SpecPlcFail == PlcFailInit /\ [][PlcFailNext]_vars

\* C13 (as claimed): in a cycle where an access inside one actuator's branch
\* failed, the decisions after that branch were still made: the relief valve
\* is open if the pressure read was above hihi, and an alarm read as clear is
\* tripped if any of the four limits was exceeded.
C13_OnlyFailingBranchAbandoned ==
    (AfterCycle /\ failed \in BranchAccesses) =>
        /\ pre[TAG_CORE_PRESSURE_VALUE] > pre[TAG_CORE_PRESSURE_HIHI]
             => tags[TAG_CORE_RELIEF_VALVE_STATUS] = 1
        /\ ( /\ pre[TAG_CORE_ALARM_STATUS] = 0
             /\ \/ pre[TAG_CORE_TEMP_OUT_VALUE] > pre[TAG_CORE_TEMP_OUT_MAX]
                \/ pre[TAG_CORE_PRESSURE_VALUE] > pre[TAG_CORE_PRESSURE_MAX]
                \/ pre[TAG_CORE_FLOW_VALUE] < pre[TAG_CORE_FLOW_MIN]
                \/ pre[TAG_PRIMARY_RAD_MON_VALUE] > pre[TAG_PRIMARY_RAD_ALARM_MAX] )
             => tags[TAG_CORE_ALARM_STATUS] = 1

----------------------------------------------------------------------------
(* SpecCmd: AttackerRemote.process_messages on command payloads.  A payload *)
(* is what json.loads makes of it: json says whether it parses to an        *)
(* object, and each key holds its string value or Absent.                   *)

MaxCmds == 2

Absent == "(absent)"
\* an exception propagating out of the expression
Raised == "(raised)"

CmdKeys == {"attack", "timeout", "target", "mode", "target1", "target2", "replay"}

\* a payload with the given keys; all other keys absent
Payload(js, kv) == [json |-> js] @@ kv @@ [k \in CmdKeys |-> Absent]

\* str.lower() on the strings carrying upper-case letters in the model
UpperCased ==
    ("PLC1" :> "plc1") @@ ("Plc2" :> "plc2") @@ ("Hmi1" :> "hmi1") @@
    ("HMI2" :> "hmi2") @@ ("PLC3" :> "plc3") @@ ("LINK" :> "link")

lower(s) == IF s \in DOMAIN UpperCased THEN UpperCased[s] ELSE s

\* mutant: msg.get(tag), a missing key is not an error
get_tag_in_msg(msg, tag) == msg[tag]

\* lines 218-222
find_tag_in_msg(msg, tag) == IF msg[tag] = Absent THEN Raised ELSE msg[tag]

\* lines 236-239: the legacy constants
LegacyAddress ==
    ("plc1" :> "192.168.0.11") @@ ("plc2" :> "192.168.0.12") @@
    ("hmi1" :> "192.168.0.21") @@ ("hmi2" :> "192.168.0.22")

\* mutant: the environment is not consulted
find_legacy_device_address(device_name, e) ==
    IF lower(device_name) \in DOMAIN LegacyAddress
    THEN LegacyAddress[lower(device_name)] ELSE Raised

\* lines 224-240; e is the dict built from os.getenv (Unset where it is None)
find_device_address(device_name, e) ==
    LET key == lower(device_name) IN
    IF key \in DOMAIN e /\ e[key] \notin {Unset, ""} THEN e[key]
    ELSE IF key \in DOMAIN LegacyAddress THEN LegacyAddress[key]
    ELSE Raised

NoCall == [prim |-> "none", target |-> << >>, timeout |-> Absent, replay_count |-> Absent]

\* a call of an attack primitive, or NoCall as soon as an argument raised
Call(prim, target, timeout, replay_count) ==
    IF target = Raised \/ timeout = Raised \/ replay_count = Raised THEN NoCall
    ELSE [prim |-> prim, target |-> target, timeout |-> timeout,
          replay_count |-> replay_count]

\* lines 193-198 and 202-208: the target of mitm and replay ("a,b" is <<a, b>>)
LinkTarget(msg, e) ==
    LET mode == find_tag_in_msg(msg, "mode") IN
    IF mode = Raised THEN Raised
    ELSE IF lower(mode) = "link"
    THEN LET target_1 == find_tag_in_msg(msg, "target1")
             target_2 == find_tag_in_msg(msg, "target2")
         IN IF target_1 = Raised \/ target_2 = Raised THEN Raised
            ELSE IF find_device_address(target_1, e) = Raised
                    \/ find_device_address(target_2, e) = Raised THEN Raised
            ELSE <<find_device_address(target_1, e), find_device_address(target_2, e)>>
    ELSE <<"192.168.0.1/24">>

\* lines 171-212: the primitive process_messages calls on payload msg, with
\* its arguments; NoCall when an exception reaches the handler of line 213
Dispatch(msg, e) ==
    IF ~msg.json THEN NoCall
    ELSE LET attack == find_tag_in_msg(msg, "attack") IN
         CASE attack = "ip-scan" -> Call("_scan_scapy_attack", << >>, Absent, Absent)
           [] attack = "ddos" ->
                LET target == find_tag_in_msg(msg, "target") IN
                Call("_ddos_attack",
                     IF target = Raised THEN Raised
                     ELSE IF find_device_address(target, e) = Raised THEN Raised
                     ELSE <<find_device_address(target, e)>>,
                     find_tag_in_msg(msg, "timeout"), Absent)
           [] attack = "port-scan" -> Call("_scan_nmap_attack", << >>, Absent, Absent)
           [] attack = "mitm" ->
                Call("_mitm_scapy_attack", LinkTarget(msg, e),
                     find_tag_in_msg(msg, "timeout"), Absent)
           [] attack = "replay" ->
                Call("_replay_scapy_attack", LinkTarget(msg, e),
                     find_tag_in_msg(msg, "timeout"), find_tag_in_msg(msg, "replay"))
           [] OTHER -> NoCall

\* the payloads delivered in the model
Commands ==
    { Payload(FALSE, << >>),
      Payload(TRUE, [timeout |-> "10", target |-> "plc1"]),
      Payload(TRUE, [attack |-> "bogus", timeout |-> "10", target |-> "plc1"]),
      Payload(TRUE, [attack |-> "ip-scan"]),
      Payload(TRUE, [attack |-> "ddos", timeout |-> "10", target |-> "PLC1"]),
      Payload(TRUE, [attack |-> "ddos", target |-> "plc1"]),
      Payload(TRUE, [attack |-> "ddos", timeout |-> "10"]),
      Payload(TRUE, [attack |-> "ddos", timeout |-> "10", target |-> "plc3"]),
      Payload(TRUE, [attack |-> "mitm", timeout |-> "10", mode |-> "LINK",
                     target1 |-> "plc1", target2 |-> "Hmi1"]),
      Payload(TRUE, [attack |-> "mitm", timeout |-> "10", mode |-> "link",
                     target1 |-> "plc1"]),
      Payload(TRUE, [attack |-> "mitm", mode |-> "network"]),
      Payload(TRUE, [attack |-> "replay", timeout |-> "10", mode |-> "link",
                     target1 |-> "plc1", target2 |-> "router", replay |-> "3"]),
      Payload(TRUE, [attack |-> "replay", timeout |-> "10", mode |-> "network"]) }

\* on_message, lines 161-165, on a payload
OnCommand(p) ==
    /\ mqtt_alive /\ rpc = "idle"
    /\ LET m == [id |-> sent + 1, attack |-> p.attack, payload |-> p] IN
         /\ sent' = sent + 1
         /\ sawBusy' = IF applying_attack THEN sawBusy \cup {m.id} ELSE sawBusy
         /\ late' = IF Incomplete THEN late \cup {m.id} ELSE late
         /\ IF Accepts(applying_attack)
            THEN rpc' = "put" /\ rmsg' = m
            ELSE rpc' = "idle" /\ rmsg' = NoMsg
    /\ UNCHANGED <<enabled, applying_attack, attacksQueue, mqtt_alive, dpc, cur,
                   started, running>>
    /\ UNCHANGED <<plcVars, extVars>>

\* process_messages, lines 171-209: the attack primitive is invoked
InvokePrimitive ==
    /\ dpc = "dispatch"
    /\ Dispatch(cur.payload, env) # NoCall
    /\ started' = Append(started, cur.id)
    /\ running' = running \cup {cur.id}
    /\ invoked' = Append(invoked, [id |-> cur.id, payload |-> cur.payload,
                                   call |-> Dispatch(cur.payload, env)])
    /\ dpc' = "attack"
    /\ UNCHANGED <<enabled, applying_attack, attacksQueue, mqtt_alive, cur, rpc, rmsg,
                   sent, sawBusy, late>>
    /\ UNCHANGED <<env, rejected>>
    /\ UNCHANGED <<plcVars, storeVars, physVars, cycVars, cfgVars, hmiVars, tearVars, boVars, twinVars>>

\* process_messages, lines 171-214: an exception is caught and reported
CommandFails ==
    /\ dpc = "dispatch"
    /\ Dispatch(cur.payload, env) = NoCall
    /\ rejected' = rejected \cup {cur.id}
    /\ dpc' = "finish"
    /\ UNCHANGED <<enabled, applying_attack, attacksQueue, mqtt_alive, cur, rpc, rmsg,
                   sent, started, running, sawBusy, late>>
    /\ UNCHANGED <<env, invoked>>
    /\ UNCHANGED <<plcVars, storeVars, physVars, cycVars, cfgVars, hmiVars, tearVars, boVars, twinVars>>

CmdNext ==
    \/ StartClientThread
    \/ SetEnabled
    \/ Sleeps
    \/ Wakes
    \/ TakeMessage
    \/ SetFlag
    \/ InvokePrimitive
    \/ CommandFails
    \/ AttackReturns
    \/ ClearFlag
    \/ \E p \in Commands : sent < MaxCmds /\ OnCommand(p)
    \/ OnMessagePut

SpecCmd == AtkSpecInit /\ [][CmdNext]_vars

\* what the command reference requires of a payload: it parses, names a
\* recognized attack, and carries every parameter its attack needs, with
\* device names that resolve
Resolvable(name) == name \in {"plc1", "PLC1", "Plc2", "plc2", "Hmi1", "hmi1", "HMI2", "hmi2"}

WellFormed(p) ==
    /\ p.json
    /\ p.attack \in RecognizedAttacks
    /\ p.attack = "ddos" =>
          p.timeout # Absent /\ p.target # Absent /\ Resolvable(p.target)
    /\ p.attack \in {"mitm", "replay"} =>
          /\ p.timeout # Absent /\ p.mode # Absent
          /\ p.mode \in {"link", "LINK"} =>
                /\ p.target1 # Absent /\ Resolvable(p.target1)
                /\ p.target2 # Absent /\ Resolvable(p.target2)
    /\ p.attack = "replay" => p.replay # Absent

\* C14: a command that is not valid JSON, lacks the attack field, names an
\* unrecognized attack, lacks a required parameter or names a target that
\* cannot be resolved invokes no attack primitive; once process_messages has
\* returned the in-flight flag is clear, and nothing of the command is left:
\* the dispatcher is as it is before any command.
C14_FailedCommandInvokesNothing ==
    /\ \A i \in 1..Len(invoked) : WellFormed(invoked[i].payload)
    /\ dpc = "dispatch" /\ ~WellFormed(cur.payload) => cur.id \notin StartedIds
    /\ \A id \in rejected :
          /\ id \notin StartedIds
          /\ id \notin running
          /\ dpc \in {"loop", "sleep"} => ~applying_attack /\ cur = NoMsg

\* C14 witness: the first command failed, and the second, well formed, was
\* then accepted and its primitive is executing
C14_Witness ==
    /\ rejected = {1}
    /\ Len(invoked) = 1
    /\ invoked[1].id = 2
    /\ 2 \notin sawBusy
    /\ running = {2}
    /\ dpc = "attack"

----------------------------------------------------------------------------
(* SpecAtkFair: SpecAtk with a dispatch loop that keeps running.  The       *)
(* Runnable loop calls _logic again and again, and every sleep and every    *)
(* attack primitive returns; the client thread and the broker are under no  *)
(* obligation.                                                              *)

\* the steps taken by the thread of the dispatch loop
DispatcherStep ==
    \/ TryEnableFails
    \/ RetryWakes
    \/ StartClientThread
    \/ SetEnabled
    \/ Sleeps
    \/ Wakes
    \/ TakeMessage
    \/ SetFlag
    \/ StartAttack
    \/ RejectCommand
    \/ AttackReturns
    \/ ClearFlag

SpecAtkFair == SpecAtk /\ WF_vars(DispatcherStep)

\* C15 (as claimed): under every interleaving of the dispatch loop and the
\* client thread, the dispatcher does not remain enabled forever with no
\* live client thread: again and again it is disabled or has a live client.
C15_NeverEnabledForeverWithoutClient == []<>(~enabled \/ mqtt_alive)

----------------------------------------------------------------------------
(* SpecPlant: the closed loop.  From the seeded store, a call of            *)
(* FactorySimulation._logic (dt = 100 ms, every random draw zero) and a     *)
(* call of PLC1._logic alternate.                                           *)

MaxPlantCycles == 100

\* FactorySimulation._logic, then it is the controller's turn
PlantTick ==
    /\ ev # "tick"
    /\ ticks < MaxPlantCycles
    /\ PhysicsTick(100, Quiet, 0)

\* one whole call of PLC1._logic on what the tick left
PlantControlLogic ==
    /\ ev = "tick"
    /\ tags' = RunCycle(tags, InitL).tags
    /\ pre' = tags
    /\ cycles' = cycles + 1
    /\ ev' = "cycle"
    /\ UNCHANGED <<L, plcWrote, opWrites>>
    /\ UNCHANGED <<atkVars, extVars>>

PlantNext == PlantTick \/ PlantControlLogic

SpecPlant == RaceInit /\ [][PlantNext]_vars

\* C17 (as claimed): in the closed loop from the defaults (flux setpoint 0.9,
\* no noise, dt = 100 ms) the alarm is never tripped, and after the last
\* cycle the outlet temperature is below its maximum.
C17_ClosedLoopNeverTrips ==
    /\ tags[TAG_CORE_ALARM_STATUS] = 0
    /\ cycles = MaxPlantCycles =>
          tags[TAG_CORE_TEMP_OUT_VALUE] < tags[TAG_CORE_TEMP_OUT_MAX]

----------------------------------------------------------------------------
(* SpecResolve: ddos commands naming every kind of target, under process    *)
(* environments that set, set to the empty string, or leave unset the       *)
(* *_HOST variables.                                                        *)

MaxDdos == 1

EnvChoices ==
    { NoEnv,
      [plc1 |-> "10.0.0.11", plc2 |-> "", hmi1 |-> Unset, hmi2 |-> "10.0.0.22"],
      [plc1 |-> "", plc2 |-> "10.0.0.12", hmi1 |-> "10.0.0.21", hmi2 |-> Unset] }

TargetNames == {"plc1", "PLC1", "plc2", "Plc2", "hmi1", "Hmi1", "hmi2", "HMI2",
                "plc3", "PLC3", "router", ""}

DdosCommands ==
    {Payload(TRUE, [attack |-> "ddos", timeout |-> "10", target |-> n]) : n \in TargetNames}

ResolveInit ==
    /\ IdleStore
    /\ AtkInit
    /\ \E e \in EnvChoices : ExtInitIn(e)

ResolveNext ==
    \/ StartClientThread
    \/ SetEnabled
    \/ Sleeps
    \/ Wakes
    \/ TakeMessage
    \/ SetFlag
    \/ InvokePrimitive
    \/ CommandFails
    \/ AttackReturns
    \/ ClearFlag
    \/ \E p \in DdosCommands : sent < MaxDdos /\ OnCommand(p)
    \/ OnMessagePut

SpecResolve == ResolveInit /\ [][ResolveNext]_vars

\* the logical target a name denotes, whatever its case
DeviceOf ==
    ("plc1" :> "plc1") @@ ("PLC1" :> "plc1") @@ ("plc2" :> "plc2") @@ ("Plc2" :> "plc2") @@
    ("hmi1" :> "hmi1") @@ ("Hmi1" :> "hmi1") @@ ("hmi2" :> "hmi2") @@ ("HMI2" :> "hmi2")

DefaultOf ==
    ("plc1" :> "192.168.0.11") @@ ("plc2" :> "192.168.0.12") @@
    ("hmi1" :> "192.168.0.21") @@ ("hmi2" :> "192.168.0.22")

\* the address the command reference gives a name under environment e
ExpectedAddress(name, e) ==
    IF name \notin DOMAIN DeviceOf THEN Raised
    ELSE IF e[DeviceOf[name]] \notin {Unset, ""} THEN e[DeviceOf[name]]
    ELSE DefaultOf[DeviceOf[name]]

\* C18: find_device_address maps plc1, plc2, hmi1 and hmi2, in any case, to
\* the address the environment provides when it is set and not empty, and
\* otherwise to 192.168.0.11, .12, .21, .22, and fails for every other name;
\* every ddos primitive invoked runs against exactly the address its target
\* resolves to, and a ddos whose target does not resolve invokes nothing.
C18_TargetResolution ==
    /\ \A n \in TargetNames : find_device_address(n, env) = ExpectedAddress(n, env)
    /\ \A i \in 1..Len(invoked) :
          /\ invoked[i].call.prim = "_ddos_attack"
          /\ invoked[i].call.target = <<ExpectedAddress(invoked[i].payload.target, env)>>
    /\ \A i \in 1..Len(invoked) : invoked[i].payload.target \in DOMAIN DeviceOf

\* C18 witness: with PLC1_HOST set to 10.0.0.11, a ddos with target "PLC1"
\* is running against 10.0.0.11
C18_Witness ==
    /\ env["plc1"] = "10.0.0.11"
    /\ dpc = "attack"
    /\ Len(invoked) = 1
    /\ invoked[1].payload.target = "PLC1"
    /\ invoked[1].call.target = <<"10.0.0.11">>
    /\ running = {invoked[1].id}

----------------------------------------------------------------------------
(* SpecEnable: AttackerRemote.__try_enable on connection files of every     *)
(* kind, with the file edited from outside between attempts.  A descriptor  *)
(* is the file as the attempt finds it: whether a candidate path exists,    *)
(* whether read_mqtt_params parses it, and the parameters read (key ->      *)
(* value, a value being the sequence of its characters).                    *)

MaxEdits == 2

RequiredKeys == {"type", "address", "port", "topic"}

GoodParams ==
    [type |-> <<"m">>, address |-> <<"h">>, port |-> <<"1", "8">>, topic |-> <<"t">>]

\* GoodParams without key k
Without(k) == [j \in DOMAIN GoodParams \ {k} |-> GoodParams[j]]

Descriptor(params) == [found |-> TRUE, parses |-> TRUE, params |-> params]

Unparsable == [found |-> TRUE, parses |-> FALSE, params |-> << >>]

FileContents ==
    { NoFile, Unparsable, Descriptor(GoodParams),
      Descriptor(Without("type")), Descriptor(Without("address")),
      Descriptor(Without("port")), Descriptor(Without("topic")),
      Descriptor([GoodParams EXCEPT !.address = <<"<", "h", ">">>]),
      Descriptor([GoodParams EXCEPT !.port = <<"<", "p">>]),
      Descriptor([GoodParams EXCEPT !.topic = <<"t", ">">>]),
      Descriptor(GoodParams @@ [password |-> <<"<", "p", ">">>]),
      Descriptor(GoodParams @@ [username |-> <<"u">>, password |-> <<"s">>]) }

\* lines 101: value.startswith("<") or value.endswith(">")
SeemsPlaceholder(value) ==
    value # << >> /\ (value[1] = "<" \/ value[Len(value)] = ">")

\* mutant: only the presence of the four keys is checked
ValidatesKeysOnly(d) ==
    d.found /\ d.parses /\ RequiredKeys \subseteq DOMAIN d.params

\* lines 64-104: the descriptor passes every check of __try_enable
Validates(d) ==
    /\ d.found
    /\ d.parses
    /\ RequiredKeys \subseteq DOMAIN d.params
    /\ \A k \in DOMAIN d.params : ~SeemsPlaceholder(d.params[k])

\* __try_enable, lines 42-116: the file is looked up, read and checked; on a
\* descriptor that passes, the client thread is started unless one is alive
TryEnable ==
    /\ LogicReady(dpc) /\ ~enabled
    /\ attempted' = connfile
    /\ IF Validates(connfile)
       THEN /\ mqtt_alive' = TRUE
            /\ threadDesc' = IF mqtt_alive THEN threadDesc ELSE connfile
            /\ dpc' = "enable"
       ELSE /\ dpc' = "retry"
            /\ UNCHANGED <<mqtt_alive, threadDesc>>
    /\ UNCHANGED <<enabled, applying_attack, attacksQueue, cur, rpc, rmsg,
                   sent, started, running, sawBusy, late>>
    /\ UNCHANGED <<connfile, edits>>
    /\ lastFail' = (IF Validates(connfile) THEN "none" ELSE "descriptor")
    /\ UNCHANGED <<plcVars, storeVars, physVars, cycVars, cmdVars, hmiVars, tearVars, twinVars>>

\* someone replaces the connection file
EditFile(d) ==
    /\ edits < MaxEdits
    /\ d # connfile
    /\ connfile' = d
    /\ edits' = edits + 1
    /\ UNCHANGED <<attempted, threadDesc>>
    /\ UNCHANGED <<plcVars, atkVars, storeVars, physVars, cycVars, cmdVars, hmiVars, tearVars, boVars, twinVars>>

EnableNext ==
    \/ TryEnable
    \/ RetryWakes
    \/ SetEnabled
    \/ ClientSetupFails
    \/ OnDisconnect
    \/ Sleeps
    \/ Wakes
    \/ \E d \in FileContents : EditFile(d)

SpecEnable == AtkSpecInit /\ [][EnableNext]_vars

\* a value that is a placeholder token: <...>
IsPlaceholderToken(value) ==
    Len(value) >= 2 /\ value[1] = "<" /\ value[Len(value)] = ">"

\* a descriptor with type, address, port and topic and no placeholder value
DescriptorOK(d) ==
    /\ d.found /\ d.parses
    /\ \A k \in RequiredKeys : k \in DOMAIN d.params
    /\ \A k \in DOMAIN d.params : ~IsPlaceholderToken(d.params[k])

----------------------------------------------------------------------------
(* SpecInject: PLC1._logic one tag-store access at a time, while another    *)
(* writer puts values outside the engineering range into the command tags.  *)

\* rod position (0..100 percent) and the 0..1 commands, in hundredths:
\* below the range, just above it, far above it
InjectValues(a) == IF a = "rod" THEN {-5000, 10001, 20000} ELSE {-250, 101, 999}

\* the actuators whose command ControlLogic computes from the value it read
ClampedActuators == {"rod", "rcp", "coolant_valve", "loop_valve", "heater", "spray"}

InjectNext ==
    \/ PlcStep
    \/ \E a \in ClampedActuators : \E v \in InjectValues(a) : WriterSetCommand(a, v)

SpecInject == RaceInit /\ [][InjectNext]_vars

\* C20: whenever ControlLogic has just written the control-rod position the
\* value lies in [0, 100], and whenever it has just written the pump-speed,
\* cooling-valve, loop-valve, heater or spray command the value lies in
\* [0, 1], whatever the tag held when it was read.
C20_AutoWritesWithinRange ==
    \A a \in ClampedActuators :
        plcWrote = CmdTag(a) =>
            /\ tags[CmdTag(a)] >= 0
            /\ tags[CmdTag(a)] <= (IF a = "rod" THEN 10000 ELSE 100)

\* C20 witness: 200.0 was injected into the rod position, ControlLogic read
\* it and has just written 100.0
C20_Witness ==
    /\ plcWrote = TAG_CORE_CONTROL_ROD_POS_VALUE
    /\ L.cmd = 20000
    /\ tags[TAG_CORE_CONTROL_ROD_POS_VALUE] = 10000

----------------------------------------------------------------------------
(* The step decisions of one whole ControlLogic cycle *)

StepActuators == {"rcp", "coolant_valve", "loop_valve"}

\* C21 (as claimed): a cycle that reads the pump-speed, cooling-valve or
\* loop-valve command in auto within [0, 1] writes a lower value only if the
\* outlet temperature it read is below its maximum and the flow it read is
\* above its minimum, and it lowers the command by less than the increase
\* step of 0.02.
C21_DecreaseOnlyWhenClearOfBothLimits ==
    AfterCycle =>
        \A a \in StepActuators :
            ( /\ ~IsManual(pre[ModeTag(a)])
              /\ pre[CmdTag(a)] \in 0..100
              /\ tags[CmdTag(a)] < pre[CmdTag(a)] )
            => /\ pre[TAG_CORE_TEMP_OUT_VALUE] < pre[TAG_CORE_TEMP_OUT_MAX]
               /\ pre[TAG_CORE_FLOW_VALUE] > pre[TAG_CORE_FLOW_MIN]
               /\ pre[CmdTag(a)] - tags[CmdTag(a)] < 2

----------------------------------------------------------------------------
(* SpecPressurizer: whole ControlLogic cycles over stores whose pressure    *)
(* lies on either side of every threshold of the heater and spray branches  *)
(* and whose heater and spray commands are at the ends and in the middle of *)
(* their range.                                                             *)

\* pressure (max 15.5, P_HYST 0.05): low, on max - P_HYST and either side of
\* it, on max, max + 0.02, max + 0.03, max + 0.04, high
PressurizerPressures == {1500, 1544, 1545, 1546, 1550, 1552, 1553, 1554, 1600}

PressurizerCommands == {0, 50, 100}

PressurizerInit ==
    /\ \E p \in PressurizerPressures, h \in PressurizerCommands, s \in PressurizerCommands :
         tags = [Seeded EXCEPT ![TAG_CORE_PRESSURE_VALUE] = p,
                               ![TAG_CORE_PRESSURIZER_HEATER_CMD] = h,
                               ![TAG_CORE_PRESSURIZER_SPRAY_CMD] = s]
    /\ L = InitL
    /\ cycles = 0
    /\ pre = tags
    /\ ev = "init"
    /\ plcWrote = "none"
    /\ opWrites = 0
    /\ AtkInit
    /\ ExtInit

SpecPressurizer == PressurizerInit /\ [][Next]_vars

\* C22: in a cycle with heater and spray both in auto and both commands read
\* within [0, 1], the heater and spray commands are never both raised and
\* never both lowered.
C22_HeaterSprayOppose ==
    ( /\ AfterCycle
      /\ ~IsManual(pre[TAG_CORE_PRESSURIZER_HEATER_MODE])
      /\ ~IsManual(pre[TAG_CORE_PRESSURIZER_SPRAY_MODE])
      /\ pre[TAG_CORE_PRESSURIZER_HEATER_CMD] \in 0..100
      /\ pre[TAG_CORE_PRESSURIZER_SPRAY_CMD] \in 0..100 )
    => /\ ~( /\ tags[TAG_CORE_PRESSURIZER_HEATER_CMD] > pre[TAG_CORE_PRESSURIZER_HEATER_CMD]
             /\ tags[TAG_CORE_PRESSURIZER_SPRAY_CMD] > pre[TAG_CORE_PRESSURIZER_SPRAY_CMD] )
       /\ ~( /\ tags[TAG_CORE_PRESSURIZER_HEATER_CMD] < pre[TAG_CORE_PRESSURIZER_HEATER_CMD]
             /\ tags[TAG_CORE_PRESSURIZER_SPRAY_CMD] < pre[TAG_CORE_PRESSURIZER_SPRAY_CMD] )

\* C22 witness: pressure below max - P_HYST, both commands at 0.5: the cycle
\* has raised the heater and lowered the spray
C22_Witness ==
    /\ AfterCycle
    /\ pre[TAG_CORE_PRESSURE_VALUE] < pre[TAG_CORE_PRESSURE_MAX] - P_HYST
    /\ pre[TAG_CORE_PRESSURIZER_HEATER_CMD] = 50
    /\ pre[TAG_CORE_PRESSURIZER_SPRAY_CMD] = 50
    /\ tags[TAG_CORE_PRESSURIZER_HEATER_CMD] = 53
    /\ tags[TAG_CORE_PRESSURIZER_SPRAY_CMD] = 48

----------------------------------------------------------------------------
(* SpecValves: the effective valve positions.  Ticks come on time, late or  *)
(* with no time elapsed; another device writes the two valve commands, in   *)
(* range or not; and the engine may be constructed again on the running     *)
(* store.                                                                   *)

\* ms since the previous call: none, the period, a call delayed to 1 s
ValveElapsed == {0, 100, 1000}

\* valve commands written by another device: below the range, inside, above
ValveCommands == {-250, 37, 250}

\* FactorySimulation() constructed again (init, lines 107-117) on a store
\* that is already seeded: initialize leaves every tag as it is
EngineRestart ==
    /\ valve_eff' = FreshEngine(tags).valve_eff
    /\ loop_valve_eff' = FreshEngine(tags).loop_valve_eff
    /\ rad_spike' = [FreshEngine(tags).rad_spike EXCEPT !.until = now]
    /\ ev' = "restart"
    /\ UNCHANGED <<tags, L, cycles, pre, plcWrote, opWrites>>
    /\ UNCHANGED <<frac, now, ticks, tick>>
    /\ UNCHANGED <<atkVars, storeVars, cycVars, cmdVars, cfgVars, hmiVars, tearVars, boVars, twinVars>>

ValvesNext ==
    \/ \E e \in ValveElapsed : ticks < MaxTicks /\ PhysicsTick(e, Quiet, 0)
    \/ \E a \in {"coolant_valve", "loop_valve"}, v \in ValveCommands : WriterSetCommand(a, v)
    \/ EngineRestart

SpecValves == RaceInit /\ [][ValvesNext]_vars

\* C23 (as claimed): the effective cooling-valve and loop-valve positions the
\* engine holds, and the loop-valve position tag, lie in [0, 1] at all times
\* from initialization on.
C23_EffectivePositionsInRange ==
    /\ valve_eff \in 0..10000
    /\ loop_valve_eff \in 0..10000
    /\ Fine(tags, frac, TAG_PRIMARY_LOOP_VALVE_POS_VALUE) \in 0..10000

Between(a, x, b) == (a <= x /\ x <= b) \/ (b <= x /\ x <= a)

\* C30 (as claimed): after a tick, with the command in [0, 1], each effective
\* valve position lies between its value before the tick and the command:
\* it moves toward the command and does not pass it.
C30_NoOvershoot ==
    (ev = "tick" /\ tick.failedAt = 0) =>
        /\ ( pre[TAG_CORE_COOLANT_VALVE_CMD] \in 0..100 /\ tick.was.valve_eff \in 0..10000 )
             => Between(tick.was.valve_eff, valve_eff, pre[TAG_CORE_COOLANT_VALVE_CMD] * 100)
        /\ ( pre[TAG_PRIMARY_LOOP_VALVE_CMD] \in 0..100 /\ tick.was.loop_valve_eff \in 0..10000 )
             => Between(tick.was.loop_valve_eff, loop_valve_eff,
                        pre[TAG_PRIMARY_LOOP_VALVE_CMD] * 100)

----------------------------------------------------------------------------
(* SpecFlow: the flow the physics loop writes, from previous flow values in *)
(* and out of range, with another device writing the pump command.          *)

\* the flow tag before the first tick: negative, zero, the default, the top
\* of the range, above it
FlowStarts == {-100, 0, 60, 120, 130}

\* pump commands written by another device: below the range, inside, above
PumpCommands == {-50, 37, 150}

FlowInit ==
    /\ \E f \in FlowStarts : tags = [Seeded EXCEPT ![TAG_CORE_FLOW_VALUE] = f]
    /\ L = InitL
    /\ cycles = 0
    /\ pre = tags
    /\ ev = "init"
    /\ plcWrote = "none"
    /\ opWrites = 0
    /\ AtkInit
    /\ ExtInit

FlowNext ==
    \/ \E e \in ValveElapsed, n \in Draws : ticks < MaxTicks /\ PhysicsTick(e, n, 0)
    \/ \E v \in PumpCommands : WriterSetCommand("rcp", v)

SpecFlow == FlowInit /\ [][FlowNext]_vars

\* C24: every flow value a tick writes lies in [0, 1.2], whatever the pump
\* command, the previous flow and dt.
C24_FlowWithinRange ==
    ev = "tick" =>
        /\ Fine(tags, frac, TAG_CORE_FLOW_VALUE) >= 0
        /\ Fine(tags, frac, TAG_CORE_FLOW_VALUE) <= 12000

\* C24 witness: with the pump command at 1.5 and a tick delayed to 1 s the
\* flow computed is 3.3, and 1.2 has been written
C24_Witness ==
    /\ ev = "tick"
    /\ pre[TAG_CORE_RCP_SPEED_CMD] = 150
    /\ pre[TAG_CORE_FLOW_VALUE] = 60
    /\ tick.dt = 1000
    /\ Fine(tags, frac, TAG_CORE_FLOW_VALUE) = 12000

----------------------------------------------------------------------------
(* SpecSpike: the radiation monitor.  Ticks keep coming, one or two seconds *)
(* apart, and the random draw of a tick may start a spike of three seconds. *)

MaxSpikeTicks == 5

SpikeElapsed == {1000, 2000}

\* random.random() below RAD_SPIKE_PROB, a duration of 3 s, a level of 0.35
SpikeDraw == [Quiet EXCEPT !.spike = TRUE, !.sec = 3000, !.level = 3500]

SpikeNext ==
    \E e \in SpikeElapsed, n \in {Quiet, SpikeDraw} :
        ticks < MaxSpikeTicks /\ PhysicsTick(e, n, 0)

SpecSpike == RaceInit /\ [][SpikeNext]_vars /\ WF_vars(SpikeNext)

\* C25: while a spike is active a tick starts no new spike and changes
\* neither its level nor its expiry; the spike stays active at a tick before
\* its expiry and ends at the first tick at or past it; a tick without noise
\* reports the level of the active spike, and the baseline once it has
\* ended; and every spike that has started ends, as long as ticks continue.
C25_SpikeTwoStateProcess ==
    /\ [][ ticks' = ticks + 1 =>
             /\ rad_spike.active =>
                   /\ rad_spike'.level = rad_spike.level
                   /\ rad_spike'.until = rad_spike.until
                   /\ rad_spike'.active <=> now' < rad_spike.until
             /\ tick'.quiet =>
                   Fine(tags', frac', TAG_PRIMARY_RAD_MON_VALUE) =
                       IF rad_spike'.active THEN rad_spike'.level ELSE RAD_BASELINE
         ]_vars
    /\ [](rad_spike.active => <>(~rad_spike.active \/ ticks = MaxSpikeTicks))

\* C25 witness: a spike of level 0.35 started, a tick at its expiry has ended
\* it, and the baseline is reported
C25_Witness ==
    /\ ev = "tick"
    /\ ~rad_spike.active
    /\ rad_spike.level = 3500
    /\ now = rad_spike.until
    /\ Fine(tags, frac, TAG_PRIMARY_RAD_MON_VALUE) = RAD_BASELINE

----------------------------------------------------------------------------
(* The attack in progress, in SpecAtk *)

\* C26: while an attack primitive is executing the in-flight flag is set,
\* and no step (a message arriving, a disconnect, the client thread failing
\* and the dispatcher regressing to disabled) ends the primitive or clears
\* the flag: the primitive ends only by returning, with the flag still set,
\* and the flag is cleared only after the primitive has returned.
C26_AttackNotInterrupted ==
    [][ /\ running' # {} => applying_attack'
        /\ running # {} =>
              \/ running' = running
              \/ running' = {} /\ dpc = "attack" /\ dpc' = "finish" /\ applying_attack'
        /\ (applying_attack /\ ~applying_attack') => running = {} /\ dpc = "finish"
      ]_vars

\* C26 witness: a primitive is executing with the flag set, although the
\* dispatcher has been disabled by a disconnect and a message has arrived
\* and been discarded meanwhile
C26_Witness ==
    /\ dpc = "attack"
    /\ running = {cur.id}
    /\ applying_attack
    /\ ~enabled
    /\ cur.id \in StartedIds
    /\ \E id \in sawBusy : id > cur.id

----------------------------------------------------------------------------
(* SpecDisplay: HMI1 polls every tag between ControlLogic cycles and an    *)
(* operator's mode changes.  A cell is (text, number in thousandths,        *)
(* colour); the rows of the table concatenate the cells of their tags.      *)

MaxPolls == 1

\* sets of tags whose read raises during one poll
ReadFailures ==
    {{}, {TAG_CORE_RCP_MODE, TAG_CORE_ALARM_STATUS, TAG_CORE_TEMP_OUT_VALUE},
     DOMAIN TAG_LIST}

\* tag.rsplit('_', 1)[1], as far as __get_formatted_value tells suffixes apart
Suffix(g) ==
    IF g \in {ModeTag(a) : a \in Actuators} THEN "mode"
    ELSE IF g \in {TAG_CORE_ALARM_STATUS, TAG_CORE_RELIEF_VALVE_STATUS} THEN "status"
    ELSE "other"

\* self._receive(tag) inside the try of __get_formatted_value: the value,
\* or "NULL" when the read raised
Received(t, g, F) == [null |-> g \in F, v |-> IF g \in F THEN 0 ELSE t[g]]

\* round(float(value), 3) of a value held in hundredths, in thousandths
Round3(v) == v * 10

\* __get_formatted_value, lines 177-214, from the value received on
__get_formatted_value(g, r) ==
    IF Suffix(g) = "mode" THEN
        IF ~r.null /\ r.v = 1 THEN [text |-> "Off man", num |-> 0, colour |-> "yellow"]
        ELSE IF ~r.null /\ r.v = 2 THEN [text |-> "On man", num |-> 0, colour |-> "yellow"]
        ELSE IF ~r.null /\ r.v = 3 THEN [text |-> "Auto", num |-> 0, colour |-> "green"]
        ELSE IF r.null THEN [text |-> "NULL", num |-> 0, colour |-> "red"]
        ELSE [text |-> "str", num |-> r.v * 1000, colour |-> "red"]
    ELSE IF Suffix(g) = "status" THEN
        IF r.null THEN [text |-> "NULL", num |-> 0, colour |-> "red"]
        ELSE IF r.v # 0 THEN [text |-> "ALM", num |-> 0, colour |-> "red"]
        ELSE [text |-> "OK", num |-> 0, colour |-> "green"]
    ELSE
        IF r.null THEN [text |-> "NULL", num |-> 0, colour |-> "cyan"]
        ELSE [text |-> "str", num |-> Round3(r.v), colour |-> "cyan"]

\* mutant: a poll that also acknowledges the alarm it shows
OperateAcknowledging(F) ==
    /\ polls < MaxPolls
    /\ display' = [g \in DOMAIN TAG_LIST |-> __get_formatted_value(g, Received(tags, g, F))]
    /\ polls' = polls + 1
    /\ tags' = [tags EXCEPT ![TAG_CORE_ALARM_STATUS] = 0]
    /\ ev' = "display"
    /\ UNCHANGED <<L, cycles, pre, plcWrote, opWrites>>
    /\ UNCHANGED <<atkVars, storeVars, physVars, cycVars, cmdVars, cfgVars, tearVars, boVars, twinVars>>

\* HMI1._operate, lines 145-175: one poll cycle, reading every tag of
\* self.tags once and filling the cells
_operate(F) ==
    /\ polls < MaxPolls
    /\ display' = [g \in DOMAIN TAG_LIST |-> __get_formatted_value(g, Received(tags, g, F))]
    /\ polls' = polls + 1
    /\ ev' = "display"
    /\ UNCHANGED <<tags, L, cycles, pre, plcWrote, opWrites>>
    /\ UNCHANGED <<atkVars, storeVars, physVars, cycVars, cmdVars, cfgVars, tearVars, boVars, twinVars>>

DisplayNext ==
    \/ \E m \in {1, 2} : OperatorSetMode("rcp", m)
    \/ ControlLogic
    \/ \E F \in ReadFailures : _operate(F)

SpecDisplay == OperatorInit /\ [][DisplayNext]_vars

\* C27: a poll cycle of the display writes no tag, whatever the values read
\* and whichever reads fail: the PLC's tags, the backing table and the
\* sub-resolution parts of the sensor tags are the same after the poll as
\* before it.
C27_PollWritesNoTag ==
    [][ polls' # polls => (tags' = tags /\ table' = table /\ frac' = frac) ]_vars

\* C27 witness: a poll has run while the alarm was tripped and the pump in
\* manual, with three reads failing; the cells show it and the tags are as
\* the last cycle left them
C27_Witness ==
    /\ ev = "display"
    /\ polls > 0
    /\ tags[TAG_CORE_ALARM_STATUS] = 1
    /\ display[TAG_CORE_RCP_MODE].text = "NULL"
    /\ display[TAG_CORE_RELIEF_VALVE_STATUS].text = "ALM"
    /\ display[TAG_CORE_PRESSURE_VALUE] = [text |-> "str", num |-> 16000, colour |-> "cyan"]
    /\ IsManual(tags[TAG_CORE_RCP_MODE])

----------------------------------------------------------------------------
(* SpecSeed: FactorySimulation is constructed, and constructed again, on a  *)
(* store file that is new, or was left by a configuration without the       *)
(* pressurizer tags, or is fully seeded, while another device writes        *)
(* command tags.  Before the first construction the engine's own fields are *)
(* not read; they hold what init would set on the defaults.                 *)

\* mutant: every tag seeded with 0
ZeroList == {<<g, 0>> : g \in DOMAIN TAG_LIST}

\* init, line 109: [(tag, TAG_LIST[tag]['default']) for tag in TAG_LIST]
initial_list == {<<g, TAG_LIST[g]>> : g \in DOMAIN TAG_LIST}

\* the tag has no row
Unseeded(tbl, g) == \A r \in tbl : r.tag # g

\* connector.initialize(initial_list): a row for every listed tag that has
\* none, stamped ts; tags that have a row are left alone
initialize(tbl, list, ts) ==
    tbl \cup {[tag |-> p[1], value |-> p[2], timestamp |-> ts] :
                 p \in {q \in list : Unseeded(tbl, q[1])}}

PressurizerTags ==
    {TAG_CORE_PRESSURIZER_HEATER_CMD, TAG_CORE_PRESSURIZER_HEATER_MODE,
     TAG_CORE_PRESSURIZER_SPRAY_CMD, TAG_CORE_PRESSURIZER_SPRAY_MODE,
     TAG_CORE_PRESSURIZER_VALVE_CMD, TAG_CORE_PRESSURIZER_VALVE_MODE}

\* the store files the first construction may find
SeedStores == {{}, {r \in SeedRows : r.tag \notin PressurizerTags}, SeedRows}

\* in tags, which holds the value last written to each tag: no write yet
Unwritten == 0 - 1000000

\* the actuators another device writes before and between the constructions
SeedActuators == {"rcp", "coolant_valve", "heater", "spray"}

\* the commands it writes: closed, 0.37, fully open
SeedValues == {0, 37, 100}

SeedInit ==
    /\ \E t0 \in SeedStores : table = t0
    /\ clock = 1
    /\ tags = [g \in DOMAIN TAG_LIST |->
                 IF Unseeded(table, g) THEN Unwritten ELSE read_value_from_sqlite(table, g)]
    /\ L = InitL
    /\ cycles = 0
    /\ pre = tags
    /\ ev = "init"
    /\ plcWrote = "none"
    /\ opWrites = 0
    /\ AtkInit
    /\ frac = [g \in SensorTags |-> 0]
    /\ valve_eff = FreshEngine(Seeded).valve_eff
    /\ loop_valve_eff = FreshEngine(Seeded).loop_valve_eff
    /\ rad_spike = FreshEngine(Seeded).rad_spike
    /\ now = 0
    /\ ticks = 0
    /\ tick = NoTick
    /\ failed = 0
    /\ env = NoEnv
    /\ invoked = << >>
    /\ rejected = {}
    /\ connfile = NoFile
    /\ attempted = NoAttempt
    /\ threadDesc = NoAttempt
    /\ edits = 0
    /\ display = NoCells
    /\ polls = 0
    /\ pending = << >>
    /\ wpos = 0
    /\ jointly = FALSE
    /\ lastFail = "none"
    /\ twin = NoTwin

\* FactorySimulation.init, lines 107-117: seed the store, then take the
\* engine's fields from it
init ==
    /\ table' = initialize(table, initial_list, clock)
    /\ clock' = IF table' = table THEN clock ELSE clock + 1
    /\ tags' = StoreView(table')
    /\ valve_eff' = FreshEngine(tags').valve_eff
    /\ loop_valve_eff' = FreshEngine(tags').loop_valve_eff
    /\ rad_spike' = [FreshEngine(tags').rad_spike EXCEPT !.until = now]
    /\ ev' = "restart"
    /\ UNCHANGED <<L, cycles, pre, plcWrote, opWrites>>
    /\ UNCHANGED <<frac, now, ticks, tick>>
    /\ UNCHANGED <<atkVars, cycVars, cmdVars, cfgVars, hmiVars, tearVars, boVars, twinVars>>

SeedNext ==
    \/ init
    \/ \E a \in SeedActuators, v \in SeedValues : StoreAttackWrite(a, v)

SpecSeed == SeedInit /\ [][SeedNext]_vars

\* C28: seeding is idempotent.  A construction gives every tag that had no
\* row its default, leaves the value every other tag reads as unchanged, and
\* seeding the resulting store again adds nothing.
C28_SeedingIdempotent ==
    [][ ev' = "restart" =>
          /\ \A g \in DOMAIN TAG_LIST :
                IF Unseeded(table, g)
                THEN read_value_from_sqlite(table', g) = TAG_LIST[g]
                ELSE read_value_from_sqlite(table', g) = read_value_from_sqlite(table, g)
          /\ initialize(table', initial_list, clock') = table'
      ]_vars

\* C28 witness: the engine was constructed on a store that lacked the
\* pressurizer tags after another device had set the heater command to 0.37:
\* the spray command got its default, the heater command kept 0.37
C28_Witness ==
    /\ ev = "restart"
    /\ read_value_from_sqlite(table, TAG_CORE_PRESSURIZER_HEATER_CMD) = 37
    /\ \E r \in table : r.tag = TAG_CORE_PRESSURIZER_SPRAY_MODE /\ r.timestamp > 1
    /\ read_value_from_sqlite(table, TAG_CORE_PRESSURIZER_SPRAY_MODE) = 3
    /\ \E r \in table : r.tag = TAG_CORE_RCP_MODE /\ r.timestamp = 0

----------------------------------------------------------------------------
(* SpecTear: the accesses of one ControlLogic cycle interleaved with the    *)
(* sensor writes of PhysicsEngine ticks, one _set at a time.  The alarm is  *)
(* tripped, the pump is speeding up from a flow just under the clear margin *)
(* and the valves are nearly closed, so that the outlet temperature rises.  *)

\* outlet temperature (clear margin 319.5): a tick takes it from 319.0 to
\* 319.34, still inside the margin, and from 319.4 to 319.74, outside it
TearTemps == {31900, 31940}

TearInit ==
    /\ \E to \in TearTemps :
       tags = [Seeded EXCEPT ![TAG_CORE_ALARM_STATUS] = 1,
                             ![TAG_CORE_TEMP_OUT_VALUE] = to,
                             ![TAG_CORE_FLOW_VALUE] = 51,
                             ![TAG_CORE_COOLANT_VALVE_CMD] = 20,
                             ![TAG_PRIMARY_LOOP_VALVE_CMD] = 20,
                             ![TAG_PRIMARY_LOOP_VALVE_POS_VALUE] = 20]
    /\ L = InitL
    /\ cycles = 0
    /\ pre = tags
    /\ ev = "init"
    /\ plcWrote = "none"
    /\ opWrites = 0
    /\ AtkInit
    /\ ExtInit

\* the clear condition of line 105 on the values store t holds
JointlyClear(t) ==
    ClearCondition([t_out |-> t[TAG_CORE_TEMP_OUT_VALUE], tmax |-> t[TAG_CORE_TEMP_OUT_MAX],
                    p_core |-> t[TAG_CORE_PRESSURE_VALUE], pmax |-> t[TAG_CORE_PRESSURE_MAX],
                    flow |-> t[TAG_CORE_FLOW_VALUE], fmin |-> t[TAG_CORE_FLOW_MIN],
                    rad |-> t[TAG_PRIMARY_RAD_MON_VALUE],
                    radmax |-> t[TAG_PRIMARY_RAD_ALARM_MAX]])

\* the next tag-store access of PLC1._logic
TearPlcStep ==
    /\ cycles < MaxRaceCycles
    /\ LET r == PLCStep(tags, L) IN
         /\ tags' = r.tags
         /\ plcWrote' = r.wrote
         /\ L' = IF Done(r.l) THEN InitL ELSE r.l
         /\ cycles' = IF Done(r.l) THEN cycles + 1 ELSE cycles
    /\ pre' = IF L.pc = 1 THEN tags ELSE pre
    /\ jointly' = ((L.pc # 1 /\ jointly) \/ JointlyClear(tags))
    /\ ev' = "plc"
    /\ UNCHANGED <<opWrites, pending, wpos>>
    /\ UNCHANGED <<atkVars, storeVars, physVars, cycVars, cmdVars, cfgVars, hmiVars, boVars, twinVars>>

\* FactorySimulation._logic, lines 21-96: the reads and the computation of a
\* tick; its writes follow one by one
TickBegin(elapsed) ==
    /\ ticks < MaxTicks
    /\ pending = << >>
    /\ LET dt == IF elapsed <= 0 THEN 1 ELSE elapsed
           nw == now + elapsed
           h == [valve_eff |-> valve_eff, loop_valve_eff |-> loop_valve_eff,
                 rad_spike |-> rad_spike]
           r == PhysicsCompute(tags, frac, h, dt, nw, Quiet)
       IN /\ pending' = r.out
          /\ valve_eff' = r.valve_eff
          /\ loop_valve_eff' = r.loop_valve_eff
          /\ rad_spike' = r.rad_spike
          /\ now' = nw
          /\ tick' = [dt |-> dt, failedAt |-> 0, quiet |-> TRUE,
                      fresh |-> PhysicsCompute(tags, frac, FreshEngine(tags), dt, nw, Quiet).out,
                      was |-> h]
    /\ wpos' = 0
    /\ ev' = "compute"
    /\ plcWrote' = "none"
    /\ UNCHANGED <<tags, L, cycles, pre, opWrites, frac, ticks, jointly>>
    /\ UNCHANGED <<atkVars, storeVars, cycVars, cmdVars, cfgVars, hmiVars, boVars, twinVars>>

\* lines 45 and 99-105: the next _set of the tick in progress
TickWrite ==
    /\ pending # << >>
    /\ LET g == PhysWriteOrder[wpos + 1]
           last == wpos + 1 = Len(PhysWriteOrder)
       IN /\ tags' = [tags EXCEPT ![g] = pending[g] \div 100]
          /\ frac' = [frac EXCEPT ![g] = pending[g] % 100]
          /\ wpos' = IF last THEN 0 ELSE wpos + 1
          /\ pending' = IF last THEN << >> ELSE pending
          /\ ticks' = IF last THEN ticks + 1 ELSE ticks
    /\ jointly' = (jointly \/ JointlyClear(tags'))
    /\ ev' = "write"
    /\ plcWrote' = "none"
    /\ UNCHANGED <<L, cycles, pre, opWrites>>
    /\ UNCHANGED <<valve_eff, loop_valve_eff, rad_spike, now, tick>>
    /\ UNCHANGED <<atkVars, storeVars, cycVars, cmdVars, cfgVars, hmiVars, boVars, twinVars>>

TearNext ==
    \/ TearPlcStep
    \/ TickBegin(100)
    \/ TickWrite

SpecTear == TearInit /\ [][TearNext]_vars

\* C29 (as claimed): whenever ControlLogic clears the alarm, some single
\* state of the store during that cycle had all four sensor values within
\* their clear margins.
C29_ClearsOnJointlyClearState ==
    (ev = "plc" /\ plcWrote = TAG_CORE_ALARM_STATUS /\ tags[TAG_CORE_ALARM_STATUS] = 0)
        => jointly

----------------------------------------------------------------------------
(* SpecRods: ticks on stores whose rod position and flux setpoint are drawn *)
(* from sets that cover the controller's range, the floor of the reactivity *)
(* and values outside the range, with another device moving the rods        *)
(* between the ticks.                                                       *)

\* rod positions in hundredths of a percent: adjacent values, the ends of the
\* controller's range, either side of the floor (114 %), and out of range
RodPositions == {-100, 0, 1, 2, 3, 4, 5000, 9999, 10000, 11399, 11400, 11401, 15000}

\* flux setpoints: the default, zero, negative
RodSetpoints == {90, 0, -10}

\* 12000 * max(0.05, 1.0 - rod_pos / 120.0): line 48 without rounding
ReactivityNum(rod_pos) == Max(600, 12000 - rod_pos)

RodsInit ==
    /\ \E r \in RodPositions, sp \in RodSetpoints :
         tags = [Seeded EXCEPT ![TAG_CORE_CONTROL_ROD_POS_VALUE] = r,
                               ![TAG_CORE_NEUTRON_FLUX_SP] = sp]
    /\ L = InitL
    /\ cycles = 0
    /\ pre = tags
    /\ ev = "init"
    /\ plcWrote = "none"
    /\ opWrites = 0
    /\ AtkInit
    /\ ExtInit

RodsNext ==
    \/ ticks < MaxTicks /\ PhysicsTick(100, Quiet, 0)
    \/ \E r \in RodPositions : WriterSetCommand("rod", r)

SpecRods == RodsInit /\ [][RodsNext]_vars

\* C31: the reactivity computed from the rod position in the store is never
\* below 0.05 and is not below the reactivity of any position further in;
\* it is strictly above it when both positions are in [0, 100]; and at the
\* setpoint in the store the flux target of the further-in position is not
\* above the flux target of the position in the store.
C31_ReactivityDecreasing ==
    LET r1 == tags[TAG_CORE_CONTROL_ROD_POS_VALUE]
        sp == tags[TAG_CORE_NEUTRON_FLUX_SP]
    IN /\ Reactivity(r1) >= 500
       /\ 6 * Reactivity(r1) - 5 * ReactivityNum(r1) \in -3..3
       /\ \A r2 \in RodPositions :
             r1 < r2 =>
                /\ Reactivity(r1) >= Reactivity(r2)
                /\ ReactivityNum(r1) >= ReactivityNum(r2)
                /\ (r1 >= 0 /\ r2 <= 10000) => ReactivityNum(r1) > ReactivityNum(r2)
                /\ FluxTarget(sp, r1) >= FluxTarget(sp, r2)

\* C31 witness: a tick has run with the rods at 100 %: the flux moved from
\* 0.8 towards the target 0.9 * 0.1667 = 0.15
C31_Witness ==
    /\ ev = "tick"
    /\ pre[TAG_CORE_CONTROL_ROD_POS_VALUE] = 10000
    /\ pre[TAG_CORE_NEUTRON_FLUX_SP] = 90
    /\ pre[TAG_CORE_NEUTRON_FLUX_VALUE] = 80
    /\ Reactivity(10000) = 1667
    /\ FluxTarget(90, 10000) = 1500
    /\ Fine(tags, frac, TAG_CORE_NEUTRON_FLUX_VALUE) = 6700

----------------------------------------------------------------------------
(* SpecRodControl: whole ControlLogic cycles on stores whose flux, rod      *)
(* position and rod mode are drawn from sets covering both signs of the     *)
(* error, both ends of the rod range and values outside it.                 *)

\* flux (setpoint 0.9): far below, below, on, above, far above
RodFluxValues == {0, 80, 90, 100, 500}

\* rod positions read: the ends of [0, 100], near them, inside, outside
RodReads == {-100, 0, 20, 5000, 9990, 10000, 10100}

RodControlInit ==
    /\ \E f \in RodFluxValues, r \in RodReads, m \in {1, 3} :
         tags = [Seeded EXCEPT ![TAG_CORE_NEUTRON_FLUX_VALUE] = f,
                               ![TAG_CORE_CONTROL_ROD_POS_VALUE] = r,
                               ![TAG_CORE_CONTROL_ROD_MODE] = m]
    /\ L = InitL
    /\ cycles = 0
    /\ pre = tags
    /\ ev = "init"
    /\ plcWrote = "none"
    /\ opWrites = 0
    /\ AtkInit
    /\ ExtInit

SpecRodControl == RodControlInit /\ [][Next]_vars

\* C32: after a cycle that found the rods in auto, the rod position is
\* clamp(rod read + 4 * (flux - setpoint), 0, 100); for a rod value read
\* within [0, 100] it is not below the value read when flux was above the
\* setpoint and not above it when flux was below the setpoint.
C32_RodProportionalStep ==
    (AfterCycle /\ ~IsManual(pre[TAG_CORE_CONTROL_ROD_MODE])) =>
        LET rod == pre[TAG_CORE_CONTROL_ROD_POS_VALUE]
            err == pre[TAG_CORE_NEUTRON_FLUX_VALUE] - pre[TAG_CORE_NEUTRON_FLUX_SP]
            new == tags[TAG_CORE_CONTROL_ROD_POS_VALUE]
        IN /\ new = (IF rod + 4 * err < 0 THEN 0
                     ELSE IF rod + 4 * err > 10000 THEN 10000 ELSE rod + 4 * err)
           /\ rod \in 0..10000 =>
                 /\ err > 0 => new >= rod
                 /\ err < 0 => new <= rod

\* C32 witness: rods in auto at 99.9 %, flux 5.0 above the setpoint 0.9: the
\* cycle wrote 100 (99.9 + 16.4, clamped)
C32_Witness ==
    /\ AfterCycle
    /\ pre[TAG_CORE_CONTROL_ROD_MODE] = 3
    /\ pre[TAG_CORE_CONTROL_ROD_POS_VALUE] = 9990
    /\ pre[TAG_CORE_NEUTRON_FLUX_VALUE] = 500
    /\ tags[TAG_CORE_CONTROL_ROD_POS_VALUE] = 10000

----------------------------------------------------------------------------
(* The retry interval, in SpecEnable.  lastFail names the last failed       *)
(* attempt: "descriptor" from the moment __try_enable gave up on the        *)
(* connection file, "client" from the moment the client thread failed; it   *)
(* is "none" once time.sleep(self._retry_interval) has returned.            *)

\* the dispatch loop calls __try_enable: an enable attempt and, when the
\* descriptor passes, a connection attempt by the client thread it starts
AttemptStarts == dpc = "loop" /\ dpc' \in {"retry", "enable"}

\* C33 (as claimed): every attempt that follows a failed attempt starts
\* after the retry interval has been waited, whichever step failed.
C33_BackoffBeforeEveryRetry ==
    [][ AttemptStarts => lastFail = "none" ]_vars

----------------------------------------------------------------------------
(* Accepted commands under a fair dispatch loop, in SpecAtkFair *)

\* process_messages has reached its end for command id: its attack was
\* executed and has returned, or the command was rejected
Processed(id) == cur.id = id /\ dpc = "finish"

\* C34 (as claimed): with attack primitives that terminate and a dispatch
\* loop that keeps running, every command accepted into the queue is
\* eventually taken by the loop and processed to its end.
C34_AcceptedEventuallyProcessed ==
    \A id \in 1..MaxMsgs : (id \in QueueIds) ~> Processed(id)

\* C34 (amended): the same, in every run in which the dispatcher is, from
\* some moment on, not disabled any more: commands accepted before a
\* disconnect wait in the queue and are processed once it is enabled again.
C34_ProcessedOnceEnabledForGood ==
    (<>[]enabled) => \A id \in 1..MaxMsgs : (id \in QueueIds) ~> Processed(id)

\* C34 witness: a command has been processed to its end although the
\* dispatcher was disabled meanwhile, and a command accepted before the
\* disconnect waits in the queue
C34_Witness ==
    /\ ~enabled
    /\ dpc = "finish"
    /\ cur.id \in StartedIds
    /\ attacksQueue # << >>

----------------------------------------------------------------------------
(* The order of starts, in SpecAtk.  Message ids number the messages in the *)
(* order of their arrival; the client thread runs one on_message at a time, *)
(* so accepted messages enter the queue in the order of their ids.          *)

\* C35: accepted commands are started in the order in which they were
\* accepted and each at most once: the ids of the started commands increase,
\* and every command still waiting in the queue was accepted after the
\* command being processed and after every command started so far.
C35_StartedInAcceptanceOrder ==
    /\ \A i, j \in 1..Len(started) : i < j => started[i] < started[j]
    /\ \A i, j \in 1..Len(attacksQueue) : i < j => attacksQueue[i].id < attacksQueue[j].id
    /\ \A k \in QueueIds :
          /\ \A i \in 1..Len(started) : started[i] < k
          /\ cur # NoMsg => cur.id < k

\* C35 witness: commands 1 and 2 were both accepted before either was
\* taken (2 arrived while 1 was waiting or being taken, and was not
\* discarded); they were started in that order, once each
C35_Witness ==
    /\ started = <<1, 2>>
    /\ 2 \in late
    /\ 2 \notin sawBusy

\* ---------------------------------------------------------------------
\* The dispatch loop at the granularity of its reads: _logic reads
\* self.enabled (line 34) and attacksQueue.empty() (line 37) and only then
\* calls attacksQueue.get() (line 38), while on_disconnect runs on the
\* MQTT client thread and may fall between the two.
\* ---------------------------------------------------------------------

\* _logic, lines 34-37: enabled is read as True, the queue as not empty
LogicFindsCommand ==
    /\ LogicReady(dpc) /\ enabled /\ attacksQueue # << >>
    /\ dpc' = "take"
    /\ UNCHANGED <<enabled, applying_attack, attacksQueue, mqtt_alive, cur, rpc, rmsg,
                   sent, started, running, sawBusy, late>>
    /\ UNCHANGED <<plcVars, extVars>>

\* _logic, line 38: self.attacksQueue.get() and the call of process_messages
QueueGet ==
    /\ dpc = "take"
    /\ cur' = Head(attacksQueue)
    /\ attacksQueue' = Tail(attacksQueue)
    /\ dpc' = "process"
    /\ UNCHANGED <<enabled, applying_attack, mqtt_alive, rpc, rmsg,
                   sent, started, running, sawBusy, late>>
    /\ UNCHANGED <<plcVars, extVars>>

TakeNext ==
    \/ TryEnableFails
    \/ RetryWakes
    \/ StartClientThread
    \/ SetEnabled
    \/ ClientSetupFails
    \/ OnDisconnect
    \/ Sleeps
    \/ Wakes
    \/ LogicFindsCommand
    \/ QueueGet
    \/ SetFlag
    \/ StartAttack
    \/ RejectCommand
    \/ AttackReturns
    \/ ClearFlag
    \/ \E k \in MsgAttacks : OnMessage(k)
    \/ OnMessagePut

SpecTake == AtkSpecInit /\ [][TakeNext]_vars

\* the queue after a step holds the queue before it as a prefix: nothing
\* was taken, the only change is an appended message
QueueKept ==
    /\ Len(attacksQueue') >= Len(attacksQueue)
    /\ SubSeq(attacksQueue', 1, Len(attacksQueue)) = attacksQueue

\* C36: while the dispatcher is disabled no command is started and the queued
\* commands stay in the queue: a step taken with enabled false starts no
\* primitive and changes the queue only by appending an accepted message.
C36_DisabledStartsNothing ==
    [][ ~enabled => (started' = started /\ QueueKept) ]_vars

\* what does hold: a _logic call that reads enabled as false takes nothing;
\* at the granularity of whole _logic calls the queue is kept while disabled
C36_DisabledCallTakesNothing ==
    [][ (~enabled /\ LogicReady(dpc)) => (started' = started /\ QueueKept) ]_vars

\* ---------------------------------------------------------------------
\* SpecSteps: PLC1._logic one tag-store access at a time and no other
\* writer, over the stores of Init (sensors on both sides of every limit,
\* the alarm and the relief valve in either state).
\* ---------------------------------------------------------------------

StepsNext == PlcStep

SpecSteps == Init /\ [][StepsNext]_vars

\* the targets of the _set calls of PLC1._logic
ProgramWrites ==
    {Program[i].tag : i \in {j \in 1..Len(Program) :
                               Program[j].op \in {"set", "set_relief", "set_alarm"}}}

ModeTags == {ModeTag(a) : a \in Actuators}
CommandTags == {CmdTag(a) : a \in Actuators}
LimitTags ==
    {TAG_CORE_NEUTRON_FLUX_SP, TAG_CORE_TEMP_OUT_MAX, TAG_CORE_PRESSURE_MAX,
     TAG_CORE_PRESSURE_HIHI, TAG_CORE_FLOW_MIN, TAG_PRIMARY_RAD_ALARM_MAX}

\* C37: a ControlLogic cycle writes only the seven guarded actuator command
\* tags, the relief-valve status and the alarm status: every store access of
\* the cycle leaves every sensor tag, every mode tag and every limit or
\* setpoint tag as it was, changes no tag but the one it writes, and a write
\* of the alarm tag always stores a value different from the one the cycle
\* read.
C37_CycleWritesOnlyCommands ==
    [][ /\ ProgramWrites = CommandTags \cup {TAG_CORE_RELIEF_VALVE_STATUS, TAG_CORE_ALARM_STATUS}
        /\ plcWrote' \in ProgramWrites \cup {"none"}
        /\ \A g \in DOMAIN tags : g # plcWrote' => tags'[g] = tags[g]
        /\ \A g \in SensorTags \cup ModeTags \cup LimitTags :
             g # plcWrote' /\ tags'[g] = tags[g]
        /\ plcWrote' = TAG_CORE_ALARM_STATUS =>
             /\ tags'[TAG_CORE_ALARM_STATUS] # L.alarm
             /\ tags'[TAG_CORE_ALARM_STATUS] # tags[TAG_CORE_ALARM_STATUS]
        /\ Done(PLCStep(tags, L).l) =>
             \A g \in SensorTags \cup ModeTags \cup LimitTags : tags'[g] = pre'[g]
      ]_vars

\* a cycle has just written the alarm tag, turning it from 0 to 1
C37_Witness ==
    /\ ev = "plc"
    /\ plcWrote = TAG_CORE_ALARM_STATUS
    /\ pre[TAG_CORE_ALARM_STATUS] = 0
    /\ tags[TAG_CORE_ALARM_STATUS] = 1
    /\ tags[TAG_CORE_PRESSURIZER_HEATER_CMD] # pre[TAG_CORE_PRESSURIZER_HEATER_CMD]
    /\ \A g \in SensorTags \cup ModeTags \cup LimitTags : tags[g] = pre[g]

\* ---------------------------------------------------------------------
\* SpecWriters: the store accesses of ControlLogic cycles interleaved, one
\* access per step, with the _set calls of a single PhysicsEngine tick.
\* ---------------------------------------------------------------------

WritersNext ==
    \/ TearPlcStep
    \/ ticks = 0 /\ TickBegin(100)
    \/ TickWrite

SpecWriters == TearInit /\ [][WritersNext]_vars

\* the tags the claim names as the PhysicsEngine's
PhysicsSensors ==
    {TAG_CORE_NEUTRON_FLUX_VALUE, TAG_CORE_TEMP_IN_VALUE, TAG_CORE_TEMP_OUT_VALUE,
     TAG_CORE_PRESSURE_VALUE, TAG_CORE_FLOW_VALUE, TAG_SG_IN_PRESSURE_VALUE,
     TAG_PRIMARY_RAD_MON_VALUE, TAG_PRIMARY_LOOP_VALVE_POS_VALUE}

\* C38: no tag is written by both loops.  Every _set of a PhysicsEngine tick
\* writes one of the eight sensor tags and changes no other tag; every store
\* access of a ControlLogic cycle leaves the eight sensor tags as they are;
\* the _set targets of the two programs are disjoint.
C38_WritersDisjoint ==
    [][ /\ SensorTags = PhysicsSensors
        /\ SensorTags \cap ProgramWrites = {}
        /\ ev' = "write" =>
             /\ PhysWriteOrder[wpos + 1] \in PhysicsSensors
             /\ \A g \in DOMAIN tags :
                  g # PhysWriteOrder[wpos + 1] => tags'[g] = tags[g]
        /\ ev' = "compute" => tags' = tags
        /\ ev' = "plc" =>
             /\ plcWrote' \notin PhysicsSensors
             /\ \A g \in PhysicsSensors : tags'[g] = tags[g]
             /\ \A g \in DOMAIN tags : g # plcWrote' => tags'[g] = tags[g]
      ]_vars

\* a ControlLogic cycle has just written a command tag while a tick that has
\* written some of its sensors still has writes to make
C38_Witness ==
    /\ ev = "plc"
    /\ plcWrote \in CommandTags
    /\ pending # << >>
    /\ wpos >= 1
    /\ tags[TAG_CORE_NEUTRON_FLUX_VALUE] # pre[TAG_CORE_NEUTRON_FLUX_VALUE]

\* ---------------------------------------------------------------------
\* SpecTwin: two runs of PhysicsEngine and ControlLogic side by side.  The
\* second run starts as a copy of the first with other values in the
\* pressurizer-valve command and mode tags, and those two tags of the
\* second run may be written again later (an operator, an attack
\* primitive).  Both runs make the same calls with the same clock and the
\* same random draws.
\* ---------------------------------------------------------------------

MaxTwinWrites == 2

\* pressure (max 15.5, hihi 15.9): clear, in the relief dead band, above hihi
TwinPressures == {1500, 1548, 1600}
\* the values given to the second run's pressurizer-valve command and mode
TwinValveCmds == {0, 37, 100}
TwinValveModes == {1, 2, 3}

PressurizerValveTags == {TAG_CORE_PRESSURIZER_VALVE_CMD, TAG_CORE_PRESSURIZER_VALVE_MODE}

TwinInit ==
    /\ \E p \in TwinPressures, al \in {0, 1}, rl \in {0, 1} :
         tags = [Seeded EXCEPT ![TAG_CORE_PRESSURE_VALUE] = p,
                               ![TAG_CORE_ALARM_STATUS] = al,
                               ![TAG_CORE_RELIEF_VALVE_STATUS] = rl]
    /\ L = InitL
    /\ cycles = 0
    /\ pre = tags
    /\ ev = "init"
    /\ plcWrote = "none"
    /\ opWrites = 0
    /\ AtkInit
    /\ ExtInit

\* the first run as a twin record
FirstRun ==
    [writes |-> 0, tags |-> tags, frac |-> frac, valve_eff |-> valve_eff,
     loop_valve_eff |-> loop_valve_eff, rad_spike |-> rad_spike]

\* the second run's pressurizer-valve command and mode tags are written;
\* the first such write starts the second run from the state of the first
TwinSet(pv, pm) ==
    /\ twin.writes < MaxTwinWrites
    /\ LET base == IF twin.writes = 0 THEN FirstRun ELSE twin IN
         twin' = [base EXCEPT !.writes = twin.writes + 1,
                              !.tags = [base.tags EXCEPT
                                          ![TAG_CORE_PRESSURIZER_VALVE_CMD] = pv,
                                          ![TAG_CORE_PRESSURIZER_VALVE_MODE] = pm]]
    /\ UNCHANGED <<plcVars, atkVars>>
    /\ UNCHANGED <<storeVars, physVars, cycVars, cmdVars, cfgVars, hmiVars, tearVars, boVars>>

\* FactorySimulation._logic on the run w, dt = 100 ms, no noise: the run
\* after the call has written all its sensors
TickOf(w) ==
    LET h == [valve_eff |-> w.valve_eff, loop_valve_eff |-> w.loop_valve_eff,
              rad_spike |-> w.rad_spike]
        r == PhysicsCompute(w.tags, w.frac, h, 100, now + 100, Quiet)
    IN [w EXCEPT !.tags = [g \in DOMAIN w.tags |->
                             IF g \in SensorTags THEN r.out[g] \div 100 ELSE w.tags[g]],
                 !.frac = [g \in SensorTags |-> r.out[g] % 100],
                 !.valve_eff = r.valve_eff,
                 !.loop_valve_eff = r.loop_valve_eff,
                 !.rad_spike = r.rad_spike]

\* both runs make a call of FactorySimulation._logic
TwinTick ==
    /\ twin.writes > 0
    /\ ticks < MaxTicks
    /\ twin' = TickOf(twin)
    /\ PhysicsTickOn(100, Quiet, 0)

\* both runs make a call of PLC1._logic
TwinControlLogic ==
    /\ twin.writes > 0
    /\ cycles < MaxCycles
    /\ tags' = RunCycle(tags, InitL).tags
    /\ twin' = [twin EXCEPT !.tags = RunCycle(twin.tags, InitL).tags]
    /\ pre' = tags
    /\ cycles' = cycles + 1
    /\ ev' = "cycle"
    /\ UNCHANGED <<L, plcWrote, opWrites>>
    /\ UNCHANGED <<atkVars, storeVars, physVars, cycVars, cmdVars, cfgVars, hmiVars,
                   tearVars, boVars>>

TwinNext ==
    \/ \E pv \in TwinValveCmds, pm \in TwinValveModes : TwinSet(pv, pm)
    \/ TwinTick
    \/ TwinControlLogic

SpecTwin == TwinInit /\ [][TwinNext]_vars

\* C39: the pressurizer-valve command and mode tags have no influence on the
\* plant: two runs of PhysicsEngine and ControlLogic that differ only in the
\* values of those two tags hold, after any number of ticks and cycles, the
\* same value in every other tag (every sensor, the relief-valve status, the
\* alarm, every other actuator command) and the same engine state.
C39_PressurizerValveWithoutInfluence ==
    twin.writes > 0 =>
        /\ \A g \in DOMAIN tags \ PressurizerValveTags : twin.tags[g] = tags[g]
        /\ twin.frac = frac
        /\ twin.valve_eff = valve_eff
        /\ twin.loop_valve_eff = loop_valve_eff
        /\ twin.rad_spike = rad_spike

\* after a tick and a cycle the runs differ in the pressurizer-valve command
\* (manual in the second run, following the open relief valve in the first)
\* and the relief valve is open in both
C39_Witness ==
    /\ ev = "cycle"
    /\ ticks >= 1
    /\ twin.tags[TAG_CORE_PRESSURIZER_VALVE_MODE] \in {1, 2}
    /\ twin.tags[TAG_CORE_PRESSURIZER_VALVE_CMD] = 37
    /\ tags[TAG_CORE_PRESSURIZER_VALVE_CMD] = 100
    /\ tags[TAG_CORE_RELIEF_VALVE_STATUS] = 1
    /\ twin.tags[TAG_CORE_RELIEF_VALVE_STATUS] = 1

====
